---- MODULE Spec2Model ----
(***************************************************************************)
(* The conversion/caching pipeline and the save protocol of the local      *)
(* HTTP server (GET /api/convert, POST /api/save, POST /converter, POST    *)
(* /api/media/:filehash) together with the external converter x2t,         *)
(* modelled as a state machine over the filesystem.                        *)
(* One action is one run of a handler or event callback of                 *)
(* the single-threaded event loop; the converter is a separate process     *)
(* whose writes and exit interleave with the handlers.                     *)
(***************************************************************************)
EXTENDS Integers, Sequences, FiniteSets, TLC

VARIABLES
    now,     \* the filesystem clock (the mtime given to a file written now)
    up,      \* TRUE while the server process is alive
    udirs,   \* existing directories of the user's tree (parents of filepath)
    src,     \* the user's files by path: [exists, mtime, content]
    dirs,    \* existing directories under test/output ("" is test/output itself)
    bin,     \* Editor.bin of each working directory: [exists, mtime, content]
    ptemp,   \* params_temp.xml of each working directory: 0, or the request that wrote it
    tbin,    \* temp_changes.bin of each directory: [exists, content], content.by the request that wrote it
    psave,   \* params_save.xml of each directory: 0, or the request that wrote it
    media,   \* the media directory of each working directory: [exists, files]
    converted, \* the directory converted/: [exists, params, outputs] by job
    procs,   \* the converter processes in flight, one per pending request
    nreq,    \* number of requests accepted so far (the next request is nreq + 1)
    failed,  \* the convert requests whose converter ended without exit code zero
    last,    \* what the handler run of the latest step observed and answered
             \* (NoEv when the latest step was not a handler of the server)
    script,  \* position in the cache round-trip scenario (0: not started)
    rt,      \* what the round-trip scenario has recorded so far
    call,    \* the latest call of a lookup of the format registry and its result
    window,  \* the globals of the editor page that the desktop stub keeps
    clock,   \* Date.now() in the editor page, in milliseconds
    timers,  \* the due times of the pending setTimeout callbacks of LocalFileSave
    posts,   \* the POSTs to /api/save that the page is waiting on
    ret,     \* the latest call of the desktop stub and what it returned
    seen,    \* what has been observed of the stub's calls so far
    answered, \* how many responses each request of SpecLive has been sent
    prov,    \* which revision of its source each artifact of SpecStale was made from
    watch    \* what SpecSdk has observed of the notifications and of the saves

fsvars == <<udirs, src, dirs, bin, ptemp, tbin, psave, media, converted>>
server == <<now, up, fsvars, procs, nreq, failed, last, script, rt>>
stub == <<window, clock, timers, posts, ret, seen>>
aside == <<call, stub, answered, prov, watch>>
vars == <<now, up, udirs, src, dirs, bin, ptemp, tbin, psave, media, converted,
          procs, nreq, failed, last, script, rt, call,
          window, clock, timers, posts, ret, seen, answered, prov, watch>>

----------------------------------------------------------------------------
(* Bounds *)

MaxReq == 1      \* requests accepted outside the round-trip scenario
MaxTime == 2     \* the clock runs 0..MaxTime
MaxJobs == 2     \* convert requests accepted by SpecJobs
MaxMedia == 2    \* requests accepted by SpecMedia
MaxChanges == 1  \* changes stored in window._documentChanges
MaxTimers == 1   \* setTimeout callbacks of LocalFileSave pending at a time
MaxPosts == 1    \* POSTs of the page in flight at a time
MaxLive == 2     \* requests accepted by SpecLive
MaxDrop == 3     \* files delivered by one drop event
MaxAsked == 2    \* calls of LocalFileGetSaved in SpecSdk
MaxCalls == 33   \* calls of LocalFileGetSaved

----------------------------------------------------------------------------
(* Inputs: paths are strings, written as sequences of characters *)

PA == <<"/", "a", ".", "c", "s", "v">>
PB == <<"/", "d", "/", "b", ".", "x", "l", "s", "x">>
PC == <<"/", "c", ".", "p", "d", "f">>
PR == <<"r", ".", "x", "l", "s", "x">>
NoPath == << >>

FilePaths == {PA, PB, PC, PR}
Paths == FilePaths \cup {NoPath}
SourcePaths == {PA, PB, PR, NoPath}     \* the paths asked of /api/convert
Touched == {PA}                         \* the files the user touches

ZIP == <<80, 75, 3, 4>>
SHORT == <<80, 75>>
BINARY == <<0, 0, 0, 0>>
EMPTY == << >>
Payloads == {ZIP, SHORT, BINARY}

ContentTypes == {"application/octet-stream", "text/plain"}

CSV_EXT == <<".", "c", "s", "v">>

\* the segments of paths under test/output; req.query.filename is a sequence
\* of segments (the string split at "/")
MEDIA == "media"
EDITOR_BIN == "Editor.bin"
DOTDOT == ".."
IMAGE == "i.png"
NoName == << >>

\* the fields of a /converter payload
CSV == <<"c", "s", "v">>
PDF == <<"P", "D", "F">>
ZIPTYPE == <<"z", "i", "p">>
KEY == <<"k">>
\* a key whose text holds markup: it closes m_sKey, gives an options element
\* of its own and opens m_sKey again
KEY_MARKUP ==
    <<"k", "</m_sKey>", "<options>",
      "<allowNetworkRequest>", "true", "</allowNetworkRequest>",
      "<allowPrivateIP>", "false", "</allowPrivateIP>",
      "</options>", "<m_sKey>">>
ConverterJobs ==
    {[filetype |-> CSV, key |-> KEY, outputtype |-> CSV, url |-> PA],
     [filetype |-> CSV, key |-> KEY_MARKUP, outputtype |-> CSV, url |-> PA],
     [filetype |-> CSV, key |-> KEY, outputtype |-> PDF, url |-> PA],
     [filetype |-> CSV, key |-> KEY, outputtype |-> ZIPTYPE, url |-> PA],
     [filetype |-> CSV, key |-> KEY, outputtype |-> CSV, url |-> PB],
     [filetype |-> CSV, key |-> << >>, outputtype |-> CSV, url |-> PA],
     [filetype |-> CSV, key |-> KEY, outputtype |-> CSV, url |-> NoPath]}

JobPaths == {PA, PB}                    \* the paths asked of /api/convert in SpecJobs

Stderrs == {"", "error"}
ExitCodes == {0, 1}
ENOENT == 0 - 2

----------------------------------------------------------------------------
(* server-utils *)

isAbsolutePath(p) ==
    \/ Len(p) >= 1 /\ p[1] = "/"
    \/ Len(p) >= 3 /\ p[2] = ":" /\ p[3] = "\\"

generateFileHash(p) ==
    CASE p = PA -> "74d6059c663073424335141d4fd39f1a"
      [] p = PB -> "d8ef9aa9618aa40b7ab5706e1b006ef5"
      [] p = PC -> "37193ced4c606ded83d9c78a05bb340a"
      [] p = PR -> "c7115f8b2e47880d48f47c29c1f0ca3b"

isXLSXSignature(data) ==
    Len(data) >= 4 /\ data[1] = 80 /\ data[2] = 75

NoFormat == [code |-> 0, name |-> "null"]

----------------------------------------------------------------------------
(* path.dirname, path.basename, path.extname, String.toLowerCase *)

RECURSIVE LastIndexOf(_, _, _)
LastIndexOf(s, c, i) ==
    IF i = 0 THEN 0
    ELSE IF s[i] = c THEN i
    ELSE LastIndexOf(s, c, i - 1)

Dirname(p) ==
    LET i == LastIndexOf(p, "/", Len(p))
    IN  IF i = 0 THEN <<".">>
        ELSE IF i = 1 THEN <<"/">>
        ELSE SubSeq(p, 1, i - 1)

Basename(p) ==
    SubSeq(p, LastIndexOf(p, "/", Len(p)) + 1, Len(p))

Extname(p) ==
    LET b == Basename(p)
        i == LastIndexOf(b, ".", Len(b))
    IN  IF i <= 1 THEN << >> ELSE SubSeq(b, i, Len(b))

LowerChar(c) ==
    CASE c = "C" -> "c" [] c = "S" -> "s" [] c = "V" -> "v"
      [] c = "X" -> "x" [] c = "L" -> "l" [] c = "P" -> "p"
      [] c = "D" -> "d" [] c = "F" -> "f" [] c = "O" -> "o"
      [] c = "T" -> "t" [] c = "R" -> "r" [] c = "H" -> "h"
      [] c = "M" -> "m" [] c = "Z" -> "z" [] c = "I" -> "i"
      [] c = "Y" -> "y"
      [] OTHER -> c

ToLowerCase(s) == [i \in 1..Len(s) |-> LowerChar(s[i])]

----------------------------------------------------------------------------
(* The format registry (server-utils) and the batch tool's getDocType *)

\* the extension families of the registry
SPREADSHEET == {<<"x", "l", "s", "x">>, <<"x", "l", "s">>, <<"o", "d", "s">>}
WORD == {<<"d", "o", "c", "x">>, <<"d", "o", "c">>, <<"o", "d", "t">>,
         <<"t", "x", "t">>, <<"r", "t", "f">>, <<"h", "t", "m", "l">>}
PRESENTATION == {<<"p", "p", "t", "x">>, <<"p", "p", "t">>, <<"o", "d", "p">>}

\* an extension is looked up with or without its leading dot
StripDot(s) == IF Len(s) >= 1 /\ s[1] = "." THEN Tail(s) ELSE s

\* a lookup that tells upper case from lower case
getX2TFormatCodeCaseSensitive(format) ==
    LET f == StripDot(format)
    IN  CASE f \in SPREADSHEET -> 257
          [] f = <<"c", "s", "v">> -> 260
          [] f \in WORD -> 65
          [] f \in PRESENTATION -> 129
          [] f = <<"p", "d", "f">> -> 513
          [] OTHER -> 0

\* getX2TFormatCode(outputtype); 0 stands for null
getX2TFormatCode(format) ==
    LET f == ToLowerCase(StripDot(format))
    IN  CASE f \in SPREADSHEET -> 257
          [] f = <<"c", "s", "v">> -> 260
          [] f \in WORD -> 65
          [] f \in PRESENTATION -> 129
          [] f = <<"p", "d", "f">> -> 513
          [] OTHER -> 0

\* getOutputFormatInfo(ext); NoFormat stands for null
getOutputFormatInfo(ext) ==
    LET e == ToLowerCase(StripDot(ext))
    IN  CASE e \in SPREADSHEET -> [code |-> 257, name |-> "XLSX"]
          [] e = <<"c", "s", "v">> -> [code |-> 260, name |-> "CSV"]
          [] e \in WORD -> [code |-> 65, name |-> "DOCX"]
          [] e \in PRESENTATION -> [code |-> 129, name |-> "PPTX"]
          [] OTHER -> NoFormat

\* getDocTypeFromFilename(filename) of the server
getDocTypeFromFilename(filename) ==
    LET ext == ToLowerCase(StripDot(Extname(filename)))
    IN  CASE ext \in SPREADSHEET \cup {<<"c", "s", "v">>} -> "cell"
          [] ext \in WORD -> "word"
          [] OTHER -> "slide"

\* a classification that takes an unrecognised extension for a text document
getDocTypeDefaultWord(ext) ==
    IF ext \in {<<"x", "l", "s", "x">>, <<"x", "l", "s">>, <<"o", "d", "s">>, <<"c", "s", "v">>}
    THEN "cell"
    ELSE IF ext \in {<<"p", "p", "t", "x">>, <<"p", "p", "t">>, <<"o", "d", "p">>}
    THEN "slide"
    ELSE "word"

\* getDocType(ext) of the batch tool
getDocType(ext) ==
    IF ext \in {<<"x", "l", "s", "x">>, <<"x", "l", "s">>, <<"o", "d", "s">>, <<"c", "s", "v">>}
    THEN "cell"
    ELSE IF ext \in {<<"d", "o", "c", "x">>, <<"d", "o", "c">>, <<"o", "d", "t">>,
                     <<"t", "x", "t">>, <<"r", "t", "f">>, <<"h", "t", "m", "l">>}
    THEN "word"
    ELSE IF ext \in {<<"p", "p", "t", "x">>, <<"p", "p", "t">>, <<"o", "d", "p">>}
    THEN "slide"
    ELSE "slide"

\* String.slice(1)
Slice1(s) == IF Len(s) >= 1 THEN Tail(s) ELSE s

\* the extensions looked up, and their spellings
Extensions ==
    SPREADSHEET \cup WORD \cup PRESENTATION
        \cup {<<"c", "s", "v">>, <<"p", "d", "f">>, <<"z", "i", "p">>, <<"x", "y", "z">>}

UpperChar(c) ==
    CASE c = "c" -> "C" [] c = "s" -> "S" [] c = "v" -> "V"
      [] c = "x" -> "X" [] c = "l" -> "L" [] c = "p" -> "P"
      [] c = "d" -> "D" [] c = "f" -> "F" [] c = "o" -> "O"
      [] c = "t" -> "T" [] c = "r" -> "R" [] c = "h" -> "H"
      [] c = "m" -> "M" [] c = "z" -> "Z" [] c = "i" -> "I"
      [] c = "y" -> "Y"
      [] OTHER -> c

ToUpperCase(s) == [i \in 1..Len(s) |-> UpperChar(s[i])]
Capitalize(s) == [i \in 1..Len(s) |-> IF i = 1 THEN UpperChar(s[i]) ELSE s[i]]
Spellings(e) ==
    {e, ToUpperCase(e), Capitalize(e),
     <<".">> \o e, <<".">> \o ToUpperCase(e), <<".">> \o Capitalize(e)}

\* the file names classified: <stem>.<ext>, with and without directories
FileNames(e) ==
    {<<"t", ".">> \o e, <<"t", ".">> \o ToUpperCase(e), <<"/", "p", "/", "t", ".">> \o e}

NoCall == [fn |-> "none", ext |-> << >>, arg |-> << >>,
           code |-> 0, info |-> NoFormat, doctype |-> ""]

CallGetX2TFormatCode(e, format) ==
    /\ call' = [NoCall EXCEPT !.fn = "getX2TFormatCode", !.ext = e, !.arg = format,
                              !.code = getX2TFormatCode(format)]
    /\ UNCHANGED <<server, answered, prov, stub, watch>>

CallGetOutputFormatInfo(e, ext) ==
    /\ call' = [NoCall EXCEPT !.fn = "getOutputFormatInfo", !.ext = e, !.arg = ext,
                              !.info = getOutputFormatInfo(ext)]
    /\ UNCHANGED <<server, answered, prov, stub, watch>>

CallGetDocTypeFromFilename(e, filename) ==
    /\ call' = [NoCall EXCEPT !.fn = "getDocTypeFromFilename", !.ext = e, !.arg = filename,
                              !.doctype = getDocTypeFromFilename(filename)]
    /\ UNCHANGED <<server, answered, prov, stub, watch>>

\* buildOfflineLoaderUrl(filePath) of the batch tool
BuildOfflineLoaderUrl(e, filePath) ==
    /\ LET ext == ToLowerCase(Slice1(Extname(filePath)))
           doctype == getDocType(ext)
       IN  call' = [NoCall EXCEPT !.fn = "buildOfflineLoaderUrl", !.ext = e,
                                  !.arg = filePath, !.doctype = doctype]
    /\ UNCHANGED <<server, answered, prov, stub, watch>>


----------------------------------------------------------------------------
(* Files *)

NoContent == [by |-> 0, data |-> << >>]
NoFile == [exists |-> FALSE, mtime |-> 0, content |-> NoContent]
NoTemp == [exists |-> FALSE, content |-> NoContent]

\* fs.writeFileSync(path, data) at the current time
Written(data) == [exists |-> TRUE, mtime |-> now, content |-> [by |-> 0, data |-> data]]

\* what the converter of request rid writes to its destination
X2tOutput(rid) == [exists |-> TRUE, mtime |-> now, content |-> [by |-> rid, data |-> <<rid>>]]

OUTPUT == ""
WorkDirs == {generateFileHash(p) : p \in FilePaths} \cup {OUTPUT}
FileHashes == {generateFileHash(PA), OUTPUT}

\* fs.mkdirSync(dir, {recursive: true}) under test/output
Mkdirp(d) == dirs \cup {d, OUTPUT}

\* the inputs of the media upload: :filehash, ?filename, the body
MediaHashes == {generateFileHash(PA), generateFileHash(PB)}
MediaNames == {<<IMAGE>>, <<DOTDOT, DOTDOT, generateFileHash(PA), EDITOR_BIN>>}
MediaPayloads == {BINARY}

NoMedia == [exists |-> FALSE, files |-> {}]
NoXml == [key |-> "", title |-> << >>, formatFrom |-> 0, formatTo |-> 0,
          csvTxtEncoding |-> 0, csvDelimiter |-> 0,
          fileFrom |-> << >>, fileTo |-> << >>,
          text |-> << >>]     \* the text of the descriptor, tag by tag

TEMP_CHANGES_BIN == "temp_changes.bin"
CONVERTED == "converted"

\* `<tag>${value}</tag>` of a template literal: the value goes in as it is
Element(tag, value) == <<"<" \o tag \o ">">> \o value \o <<"</" \o tag \o ">">>

\* `\n<m_nCsvTxtEncoding>46</m_nCsvTxtEncoding>\n<m_nCsvDelimiter>4</m_nCsvDelimiter>`
CsvElements == Element("m_nCsvTxtEncoding", <<"46">>) \o Element("m_nCsvDelimiter", <<"4">>)

\* the <options> block of the three templates
ConvertOptions ==
    <<"<options>">> \o Element("allowNetworkRequest", <<"false">>)
        \o Element("allowPrivateIP", <<"true">>) \o <<"</options>">>

ConverterOptions ==
    <<"<options>">> \o Element("allowNetworkRequest", <<"false">>)
        \o Element("allowPrivateIP", <<"true">>) \o <<"</options>">>

SaveOptions ==
    <<"<options>">> \o Element("allowNetworkRequest", <<"false">>)
        \o Element("allowPrivateIP", <<"true">>) \o <<"</options>">>

\* the texts of the elements named tag in a descriptor, in document order
RECURSIVE ElementValues(_, _)
ElementValues(text, tag) ==
    IF Len(text) < 2 THEN << >>
    ELSE IF Head(text) = "<" \o tag \o ">"
    THEN <<text[2]>> \o ElementValues(Tail(text), tag)
    ELSE ElementValues(Tail(text), tag)

----------------------------------------------------------------------------
(* The record of one handler run *)

NoObs == [exists |-> FALSE, cacheMtime |-> 0, sourceMtime |-> 0]

NoEv == [rid |-> 0, kind |-> "none", fp |-> NoPath, fh |-> OUTPUT,
         ct |-> "", payload |-> EMPTY, name |-> << >>,
         filename |-> << >>,      \* the file name asked for (media endpoints)
         list |-> {},             \* the names a media-list response holds
         branch |-> "none",       \* the exit path the handler took
         status |-> 0,            \* HTTP status sent (0: no response sent)
         xcache |-> "", xhash |-> "",        \* the X-Cache and X-File-Hash headers
         body |-> NoContent, errtext |-> "", size |-> 0,
         target |-> << >>,        \* outputtype of a /converter job
         xml |-> NoXml,           \* the descriptor the handler wrote
         success |-> FALSE,
         spawned |-> FALSE,       \* the request spawned the converter
         code |-> 0, wrote |-> FALSE, stderr |-> "",
         obs |-> NoObs,           \* what the cache check read
         outExists |-> FALSE,     \* the destination existed when the converter closed
         descLeft |-> FALSE,      \* the request's descriptor is on disk after the run
         tempLeft |-> FALSE]      \* temp_changes.bin is on disk after the run

\* what the scenarios record of their calls
NoRt == [p |-> NoPath,
         b1 |-> "", status1 |-> 0, xcache1 |-> "", body1 |-> NoContent, rid1 |-> 0,
         b2 |-> "", status2 |-> 0, body2 |-> NoContent, spawned2 |-> FALSE,
         cacheMtime2 |-> 0, sourceMtime2 |-> 0,   \* the two mtimes at the second call
         touchedTo |-> 0, cacheMtime3 |-> 0,      \* the two mtimes after the touch
         b3 |-> "", spawned3 |-> FALSE, rid3 |-> 0,
         status3 |-> 0, xcache3 |-> "", body3 |-> NoContent, artifact3 |-> NoContent,
         fh1 |-> "",                              \* X-File-Hash of the first response
         saveBranch |-> "", saveStatus |-> 0, saveSpawned |-> FALSE,
         saveSuccess |-> FALSE, saveSize |-> 0, saveCode |-> 0, saveWrote |-> FALSE]

\* The server starts on a filesystem that holds the user's file PA and either
\* no working directory (fresh) or the working directory and Editor.bin that
\* an earlier run of the server left for PA (warm).
Earlier == [exists |-> TRUE, mtime |-> 1, content |-> [by |-> 0, data |-> <<0>>]]

InitFiles(warm) ==
    /\ now = IF warm THEN 1 ELSE 0
    /\ dirs = IF warm THEN {OUTPUT, generateFileHash(PA)} ELSE {}
    /\ bin = [d \in WorkDirs |-> IF warm /\ d = generateFileHash(PA) THEN Earlier ELSE NoFile]

\* revisions of the sources' contents: src[p] counts the edits of p, read[r]
\* is the revision the converter of request r read (Unread before it has),
\* art[d] the revision Editor.bin of directory d was converted from
Unread == 0 - 1
NoProv == [src |-> [p \in FilePaths |-> 0],
           read |-> [r \in 1..MaxJobs |-> Unread],
           art |-> [d \in WorkDirs |-> 0]]

\* the requests whose responses SpecLive counts
Requests == 1..MaxLive

\* The globals of the editor page kept by the desktop stub
INFINITE_LOOP_THRESHOLD == 30

\* the instants at which the page's code runs, and the time the page loaded
Instants == {1000, 1050, 1100, 3000, 3050}
LoopInstants == {1000, 1500, 2000}
PageLoad == CHOOSE t \in Instants : \A u \in Instants : t <= u

\* window.editor || window.Asc.editor: none yet, or an editor that exports
\* with asc_nativeGetFileData, with asc_nativeGetFile, or with neither
Editors == {"asc_nativeGetFileData", "asc_nativeGetFile", "noexport"}

InitWindow ==
    [documentChanges |-> 0,            \* window._documentChanges.length
     hasUnsavedChanges |-> FALSE,
     documentLoaded |-> FALSE,
     documentModified |-> FALSE,       \* undefined until it is first set
     userHasEdited |-> FALSE,          \* undefined until it is first set
     lastModifiedChangedTime |-> 0,    \* 0: undefined
     lastOnSaveTime |-> 0,             \* 0: undefined
     localFileGetSavedCallTimes |-> << >>,
     infiniteLoopGetSavedWarningShown |-> FALSE,
     infiniteLoopGetSavedDetected |-> FALSE,
     ONLYOFFICE_FILEPATH |-> NoPath,   \* of the window or of its parent
     ONLYOFFICE_FILE_HASH |-> "",      \* of the window or of its parent; "": undefined
     droppedFiles |-> << >>,
     uploadedFileMap |-> << >>,        \* the files whose blob URLs are its keys, in order
     blobFileMap |-> {},               \* the files whose blob URLs are its keys
     editor |-> "none"]

NoRet == [op |-> "none", arg |-> FALSE, value |-> "none",
          accepted |-> FALSE,          \* the call passed its throttle
          invoked |-> FALSE,           \* OnSave called LocalFileSave
          scheduled |-> FALSE,         \* the call scheduled an export
          urls |-> << >>]              \* the files whose blob URLs GetDropFiles returned

NoWatch == [saved |-> FALSE,           \* a save has succeeded and no edit has followed
            notified |-> "none",       \* the argument of the latest onDocumentModifiedChanged
            status |-> 0]              \* the status of the latest response to the page's POST

NoSeen == [edited |-> FALSE,           \* a change was stored or modified=true accepted
           started |-> << >>,          \* the times at which OnSave called LocalFileSave
           calls |-> << >>,            \* the times of the calls of LocalFileGetSaved
           dropped |-> << >>,          \* the files of a drop event not yet fetched
           refused |-> {}]             \* those of them whose upload the server refused


Init ==
    /\ \E warm \in BOOLEAN : InitFiles(warm)
    /\ up = TRUE
    /\ udirs = {<<"/">>, <<".">>}
    /\ src = [p \in FilePaths |->
                IF p = PA THEN [exists |-> TRUE, mtime |-> 0, content |-> [by |-> 0, data |-> <<1>>]]
                ELSE NoFile]
    /\ ptemp = [d \in WorkDirs |-> 0]
    /\ tbin = [d \in WorkDirs |-> NoTemp]
    /\ psave = [d \in WorkDirs |-> 0]
    /\ media = [d \in WorkDirs |-> NoMedia]
    /\ converted = [exists |-> FALSE, params |-> {}, outputs |-> {}]
    /\ procs = {}
    /\ nreq = 0
    /\ failed = {}
    /\ last = NoEv
    /\ script = 0
    /\ rt = NoRt
    /\ call = NoCall
    /\ window = InitWindow
    /\ clock = PageLoad
    /\ timers = << >>
    /\ posts = 0
    /\ ret = NoRet
    /\ seen = NoSeen
    /\ answered = [r \in Requests |-> 0]
    /\ prov = NoProv
    /\ watch = NoWatch

----------------------------------------------------------------------------
(* The environment: time passes, the user's files change *)

Tick ==
    /\ now < MaxTime
    /\ now' = now + 1
    /\ last' = NoEv
    /\ UNCHANGED <<up, fsvars, procs, nreq, failed>>

\* utimes / touch / replacing the file: the source gets modification time m
Touch(p, m) ==
    /\ src[p].exists
    /\ m # src[p].mtime
    /\ src' = [src EXCEPT ![p].mtime = m]
    /\ last' = NoEv
    /\ UNCHANGED <<now, up, udirs, dirs, bin, ptemp, tbin, psave, media, converted,
                   procs, nreq, failed>>

----------------------------------------------------------------------------
(* GET /api/convert *)

\* a cache check that also accepts an artifact as old as the source
IsCacheHitNotStrict(cache, source) ==
    cache.exists /\ cache.mtime >= source.mtime

\* the cache check: Editor.bin exists and is newer than the source
IsCacheHit(cache, source) ==
    cache.exists /\ cache.mtime > source.mtime

ConvertFilepathValid(fp) ==
    fp # NoPath /\ isAbsolutePath(fp)

\* an existence check that lets every path through
SourceAssumedToExist(fp) == TRUE

\* fs.existsSync(inputPath)
SourceExists(fp) == src[fp].exists

\* one working directory for every source
ConvertOutputDirShared(fp) == OUTPUT

\* outputDir = test/output/<fileHash>, named by its last segment
ConvertOutputDir(fp) == generateFileHash(fp)

\* a spawn that waits while a converter works in the same directory
SpawnUnlessBusy(job) ==
    IF \E q \in procs : q.kind = job.kind /\ q.dir = job.dir
    THEN procs
    ELSE procs \cup {job}

\* spawn(x2tPath, [paramsPath]): one more child process
Spawn(job) == procs \cup {job}

\* an X-Cache header that always says HIT
CacheStatusAlwaysHit(spawned) == "HIT"

\* the X-Cache header of a successful response
CacheStatus(spawned) == IF spawned THEN "MISS" ELSE "HIT"

\* the descriptor params_temp.xml
ConvertXmlConfig(inputPath) ==
    LET filename == Basename(inputPath)
        csv == ToLowerCase(Extname(filename)) = CSV_EXT
        outputPath == <<ConvertOutputDir(inputPath), EDITOR_BIN>>
    IN  [key |-> "api_conversion", title |-> filename,
         formatFrom |-> 0, formatTo |-> 8192,
         csvTxtEncoding |-> IF csv THEN 46 ELSE 0,
         csvDelimiter |-> IF csv THEN 4 ELSE 0,
         fileFrom |-> inputPath, fileTo |-> outputPath,
         text |-> Element("m_sKey", <<"api_conversion">>)
                    \o Element("m_sFileFrom", inputPath)
                    \o Element("m_sFileTo", outputPath)
                    \o Element("m_sTitle", filename)
                    \o Element("m_nFormatTo", <<"8192">>)
                    \o (IF csv THEN CsvElements ELSE << >>)
                    \o ConvertOptions]

ConvertRequest(fp) ==
    /\ up
    /\ nreq' = nreq + 1
    /\ LET rid == nreq + 1
           ev == [NoEv EXCEPT !.rid = rid, !.kind = "convert", !.fp = fp]
       IN
       IF ~ConvertFilepathValid(fp) THEN
           /\ last' = [ev EXCEPT !.branch = "invalid", !.status = 400]
           /\ UNCHANGED <<fsvars, procs>>
       ELSE IF ~SourceExists(fp) THEN
           /\ last' = [ev EXCEPT !.fh = ConvertOutputDir(fp), !.branch = "notfound", !.status = 404]
           /\ UNCHANGED <<fsvars, procs>>
       ELSE
           LET fileHash == ConvertOutputDir(fp)
               observed == [exists |-> bin[fileHash].exists,
                            cacheMtime |-> bin[fileHash].mtime,
                            sourceMtime |-> src[fp].mtime]
               ev2 == [ev EXCEPT !.fh = fileHash, !.obs = observed]
           IN
           IF IsCacheHit(bin[fileHash], src[fp]) THEN
               /\ last' = [ev2 EXCEPT !.branch = "hit", !.status = 200,
                                      !.xcache = CacheStatus(FALSE),
                                      !.xhash = generateFileHash(fp),
                                      !.body = bin[fileHash].content,
                                      !.size = Len(bin[fileHash].content.data),
                                      !.success = TRUE]
               /\ UNCHANGED <<fsvars, procs>>
           ELSE
               /\ dirs' = Mkdirp(fileHash)
               /\ ptemp' = [ptemp EXCEPT ![fileHash] = rid]
               /\ procs' = Spawn([rid |-> rid, kind |-> "convert", fp |-> fp,
                                  dir |-> fileHash, wrote |-> FALSE])
               /\ last' = [ev2 EXCEPT !.branch = "miss", !.spawned = TRUE, !.descLeft = TRUE,
                                      !.xml = ConvertXmlConfig(fp)]
               /\ UNCHANGED <<udirs, src, bin, tbin, psave, media, converted>>
    /\ UNCHANGED <<now, up, failed>>

\* a close handler that takes its branch from the captured stderr
ConvertCloseStatusFromStderr(code, outExists, stderr) ==
    IF stderr # "" THEN 500
    ELSE IF ~outExists THEN 500
    ELSE 200

\* the status the close handler answers with; stderr is captured but not read
ConvertCloseStatus(code, outExists, stderr) ==
    IF code # 0 THEN 500
    ELSE IF ~outExists THEN 500
    ELSE 200

\* the invocations for /api/convert that have ended without exit code zero
Exited(rid, code) == IF code # 0 THEN failed \cup {rid} ELSE failed

\* x2t.on('close')
ConvertClose(p, code, stderr) ==
    /\ up
    /\ p \in procs /\ p.kind = "convert"
    /\ LET status == ConvertCloseStatus(code, bin[p.dir].exists, stderr)
           ev == [NoEv EXCEPT !.rid = p.rid, !.kind = "convert", !.fp = p.fp, !.fh = p.dir,
                              !.spawned = TRUE, !.code = code, !.wrote = p.wrote,
                              !.stderr = stderr, !.outExists = bin[p.dir].exists,
                              !.status = status, !.descLeft = (ptemp'[p.dir] # 0)]
       IN
       /\ ptemp' = [ptemp EXCEPT ![p.dir] = 0]      \* fs.unlinkSync(paramsPath)
       /\ last' = IF status = 200
                  THEN [ev EXCEPT !.branch = "converted", !.xcache = CacheStatus(TRUE),
                                  !.xhash = generateFileHash(p.fp),
                                  !.body = bin[p.dir].content,
                                  !.size = Len(bin[p.dir].content.data),
                                  !.success = TRUE]
                  ELSE IF code # 0
                  THEN [ev EXCEPT !.branch = "nonzero", !.errtext = stderr]
                  ELSE [ev EXCEPT !.branch = "missing"]
    /\ procs' = procs \ {p}
    /\ failed' = Exited(p.rid, code)
    /\ UNCHANGED <<now, up, udirs, src, dirs, bin, tbin, psave, media, converted, nreq>>

\* the child emits 'error' (the converter could not be started); the convert
\* handler registers no 'error' listener, so the event is thrown as an
\* uncaught exception and the process ends
ConvertSpawnError(p) ==
    /\ up
    /\ p \in procs /\ p.kind = "convert" /\ ~p.wrote
    /\ up' = FALSE
    /\ procs' = procs \ {p}
    /\ failed' = Exited(p.rid, ENOENT)
    /\ last' = [NoEv EXCEPT !.rid = p.rid, !.kind = "convert", !.fp = p.fp, !.fh = p.dir,
                            !.spawned = TRUE, !.code = ENOENT, !.branch = "uncaught",
                            !.descLeft = (ptemp[p.dir] # 0)]
    /\ UNCHANGED <<now, fsvars, nreq>>

----------------------------------------------------------------------------
(* POST /api/save *)

\* express.raw({type: 'application/octet-stream'}) followed by express.json():
\* req.body is the payload as a Buffer only for application/octet-stream
ParseBody(ct, payload) ==
    [isBuffer |-> (ct = "application/octet-stream"), data |-> payload]

\* a validation that only asks for the parameter to be present
SaveFilepathPresent(fp) ==
    fp # NoPath

SaveFilepathValid(fp) ==
    fp # NoPath /\ isAbsolutePath(fp)

\* a direct write that loses the last byte
DirectWriteTruncated(body) == Written(SubSeq(body, 1, Len(body) - 1))

\* the file the direct-write branch leaves at filepath
DirectWrite(body) == Written(body)

\* a format lookup that falls back to the spreadsheet format
SaveFormatInfoOrXlsx(fp) ==
    LET info == getOutputFormatInfo(ToLowerCase(Extname(fp)))
    IN  IF info = NoFormat THEN [code |-> 257, name |-> "XLSX"] ELSE info

\* ext = path.extname(filepath).toLowerCase(); getOutputFormatInfo(ext)
SaveFormatInfo(fp) == getOutputFormatInfo(ToLowerCase(Extname(fp)))

\* a source path that names the cached artifact instead of the posted bytes
SaveFileFromEditorBin(hashDir) == <<hashDir, EDITOR_BIN>>

\* changesBinPath = path.join(hashDir, 'temp_changes.bin')
SaveFileFrom(hashDir) == <<hashDir, TEMP_CHANGES_BIN>>

\* the descriptor params_save.xml
SaveXmlConfig(fp, hashDir, formatTo) ==
    LET ext == ToLowerCase(Extname(fp))
        changesBinPath == SaveFileFrom(hashDir)
    IN  [key |-> "api_save", title |-> Basename(fp),
         formatFrom |-> 8192, formatTo |-> formatTo,
         csvTxtEncoding |-> IF ext = CSV_EXT THEN 46 ELSE 0,
         csvDelimiter |-> IF ext = CSV_EXT THEN 4 ELSE 0,
         fileFrom |-> changesBinPath, fileTo |-> fp,
         text |-> Element("m_sKey", <<"api_save">>)
                    \o Element("m_sFileFrom", changesBinPath)
                    \o Element("m_nFormatFrom", <<"8192">>)
                    \o Element("m_sFileTo", fp)
                    \o Element("m_sTitle", Basename(fp))
                    \o Element("m_nFormatTo", <<ToString(formatTo)>>)
                    \o (IF ext = CSV_EXT THEN CsvElements ELSE << >>)
                    \o SaveOptions]

\* fault: fs.writeFileSync(paramsPath, xmlConfig) throws
SaveRequest(fp, fh, ct, payload, fault) ==
    /\ up
    /\ nreq' = nreq + 1
    /\ LET rid == nreq + 1
           body == ParseBody(ct, payload)
           hashDir == fh
           ev == [NoEv EXCEPT !.rid = rid, !.kind = "save", !.fp = fp, !.fh = fh,
                              !.ct = ct, !.payload = payload]
       IN
       IF ~SaveFilepathValid(fp) THEN
           /\ last' = [ev EXCEPT !.branch = "invalid", !.status = 400]
           /\ UNCHANGED <<fsvars, procs>>
       ELSE IF ~body.isBuffer THEN
           \* req.body.slice is not a function: the handler throws after mkdir
           /\ udirs' = udirs \cup {Dirname(fp)}
           /\ last' = [ev EXCEPT !.branch = "typeerror", !.status = 500]
           /\ UNCHANGED <<src, dirs, bin, ptemp, tbin, psave, media, converted, procs>>
       ELSE IF isXLSXSignature(body.data) THEN
           /\ udirs' = udirs \cup {Dirname(fp)}
           /\ src' = [src EXCEPT ![fp] = DirectWrite(body.data)]
           /\ last' = [ev EXCEPT !.branch = "direct", !.status = 200, !.success = TRUE,
                                 !.size = Len(DirectWrite(body.data).content.data)]
           /\ UNCHANGED <<dirs, bin, ptemp, tbin, psave, media, converted, procs>>
       ELSE IF SaveFormatInfo(fp) = NoFormat THEN
           /\ udirs' = udirs \cup {Dirname(fp)}
           /\ last' = [ev EXCEPT !.branch = "unsupported", !.status = 400]
           /\ UNCHANGED <<src, dirs, bin, ptemp, tbin, psave, media, converted, procs>>
       ELSE IF hashDir \notin dirs THEN
           \* writeFileSync(changesBinPath) throws ENOENT
           /\ udirs' = udirs \cup {Dirname(fp)}
           /\ last' = [ev EXCEPT !.branch = "enoent", !.status = 500]
           /\ UNCHANGED <<src, dirs, bin, ptemp, tbin, psave, media, converted, procs>>
       ELSE IF fault THEN
           /\ udirs' = udirs \cup {Dirname(fp)}
           /\ tbin' = [tbin EXCEPT ![hashDir] = [exists |-> TRUE, content |-> [by |-> rid, data |-> body.data]]]
           /\ last' = [ev EXCEPT !.branch = "descfail", !.status = 500,
                                 !.descLeft = (psave[hashDir] # 0), !.tempLeft = TRUE]
           /\ UNCHANGED <<src, dirs, bin, ptemp, psave, media, converted, procs>>
       ELSE
           /\ udirs' = udirs \cup {Dirname(fp)}
           /\ tbin' = [tbin EXCEPT ![hashDir] = [exists |-> TRUE, content |-> [by |-> rid, data |-> body.data]]]
           /\ psave' = [psave EXCEPT ![hashDir] = rid]
           /\ procs' = Spawn([rid |-> rid, kind |-> "save", fp |-> fp,
                              dir |-> hashDir, wrote |-> FALSE])
           /\ last' = [ev EXCEPT !.branch = "convert", !.spawned = TRUE,
                                 !.descLeft = TRUE, !.tempLeft = TRUE,
                                 !.xml = SaveXmlConfig(fp, hashDir, SaveFormatInfo(fp).code)]
           /\ UNCHANGED <<src, dirs, bin, ptemp, media, converted>>
    /\ UNCHANGED <<now, up, failed>>

\* a close handler that takes its branch from the captured stderr
SaveCloseStatusFromStderr(code, outExists, stderr) ==
    IF stderr # "" THEN 500
    ELSE IF ~outExists THEN 500
    ELSE 200

SaveCloseStatus(code, outExists, stderr) ==
    IF code # 0 THEN 500
    ELSE IF ~outExists THEN 500
    ELSE 200

\* a cleanup that also removes the destination of a failed conversion
OutputPathUnlinkedOnFailure(p, code) ==
    IF code # 0 THEN NoFile ELSE src[p.fp]

\* the close handler unlinks paramsPath and changesBinPath, never outputPath
OutputPathAfterClose(p, code) == src[p.fp]

\* x2t.on('close') of the save handler
SaveCloseHandler(p, code, stderr) ==
    LET status == SaveCloseStatus(code, src[p.fp].exists, stderr)
        ev == [NoEv EXCEPT !.rid = p.rid, !.kind = "save", !.fp = p.fp, !.fh = p.dir,
                           !.spawned = TRUE, !.code = code, !.wrote = p.wrote,
                           !.stderr = stderr, !.outExists = src[p.fp].exists,
                           !.status = status, !.descLeft = (psave'[p.dir] # 0),
                           !.tempLeft = tbin'[p.dir].exists]
    IN
    /\ psave' = [psave EXCEPT ![p.dir] = 0]
    /\ tbin' = [tbin EXCEPT ![p.dir] = NoTemp]
    /\ src' = [src EXCEPT ![p.fp] = OutputPathAfterClose(p, code)]
    /\ last' = IF status = 200
               THEN [ev EXCEPT !.branch = "converted", !.success = TRUE,
                               !.size = Len(src[p.fp].content.data)]
               ELSE IF code # 0
               THEN [ev EXCEPT !.branch = "nonzero", !.errtext = "conversion error"]
               ELSE [ev EXCEPT !.branch = "missing", !.errtext = "no output file"]
    /\ procs' = procs \ {p}
    /\ UNCHANGED <<now, up, udirs, dirs, bin, ptemp, media, converted, nreq, failed>>

SaveClose(p, code, stderr) ==
    /\ up
    /\ p \in procs /\ p.kind = "save"
    /\ SaveCloseHandler(p, code, stderr)

\* the child emits 'error' (logged by the listener) and then 'close' with the
\* negative errno as its code
SaveSpawnError(p) ==
    /\ up
    /\ p \in procs /\ p.kind = "save" /\ ~p.wrote
    /\ SaveCloseHandler(p, ENOENT, "")

----------------------------------------------------------------------------
(* POST /converter *)

\* the descriptor converted/params_<fileHash>.xml
ConverterXmlConfig(job, rid) ==
    LET formatToCode == getX2TFormatCode(job.outputtype)
        outputPath == <<CONVERTED, ToString(rid)>>
    IN  [key |-> "converter", title |-> Basename(job.url),
         formatFrom |-> 0, formatTo |-> formatToCode,
         csvTxtEncoding |-> 0, csvDelimiter |-> 0,
         fileFrom |-> job.url, fileTo |-> outputPath,
         text |-> Element("m_sKey", <<"converter_">> \o job.key)
                    \o Element("m_sFileFrom", job.url)
                    \o Element("m_sFileTo", outputPath)
                    \o Element("m_sTitle", Basename(job.url))
                    \o Element("m_nFormatTo", <<ToString(formatToCode)>>)
                    \o ConverterOptions]

\* the request body is the payload itself (no token); url is a file path
ConverterRequest(job) ==
    /\ up
    /\ nreq' = nreq + 1
    /\ LET rid == nreq + 1
           ev == [NoEv EXCEPT !.rid = rid, !.kind = "converter", !.fp = job.url,
                              !.target = job.outputtype]
       IN
       IF job.filetype = << >> \/ job.key = << >> \/ job.outputtype = << >> THEN
           /\ last' = [ev EXCEPT !.branch = "invalid", !.status = 400]
           /\ UNCHANGED <<fsvars, procs>>
       ELSE IF job.url = NoPath THEN
           /\ last' = [ev EXCEPT !.branch = "invalid", !.status = 400]
           /\ UNCHANGED <<fsvars, procs>>
       ELSE IF ~src[job.url].exists THEN
           /\ last' = [ev EXCEPT !.branch = "notfound", !.status = 404]
           /\ UNCHANGED <<fsvars, procs>>
       ELSE IF getX2TFormatCode(job.outputtype) = 0 THEN
           /\ last' = [ev EXCEPT !.branch = "unsupported", !.status = 400]
           /\ UNCHANGED <<fsvars, procs>>
       ELSE
           /\ converted' = [converted EXCEPT !.exists = TRUE, !.params = @ \cup {rid}]
           /\ procs' = Spawn([rid |-> rid, kind |-> "converter", fp |-> job.url,
                              dir |-> OUTPUT, wrote |-> FALSE])
           /\ last' = [ev EXCEPT !.branch = "convert", !.spawned = TRUE, !.descLeft = TRUE,
                                 !.xml = ConverterXmlConfig(job, rid)]
           /\ UNCHANGED <<udirs, src, dirs, bin, ptemp, tbin, psave, media>>
    /\ UNCHANGED <<now, up, failed>>

\* x2t.on('close') of the /converter handler
ConverterClose(p, code, stderr) ==
    /\ up
    /\ p \in procs /\ p.kind = "converter"
    /\ LET outExists == p.rid \in converted.outputs
           status == IF code # 0 THEN 500 ELSE IF ~outExists THEN 500 ELSE 200
           ev == [NoEv EXCEPT !.rid = p.rid, !.kind = "converter", !.fp = p.fp,
                              !.spawned = TRUE, !.code = code, !.wrote = p.wrote,
                              !.stderr = stderr, !.outExists = outExists,
                              !.status = status]
       IN
       /\ converted' = [converted EXCEPT !.params = @ \ {p.rid}]
       /\ last' = IF status = 200
                  THEN [ev EXCEPT !.branch = "converted", !.success = TRUE]
                  ELSE IF code # 0
                  THEN [ev EXCEPT !.branch = "nonzero", !.errtext = stderr]
                  ELSE [ev EXCEPT !.branch = "missing"]
    /\ procs' = procs \ {p}
    /\ UNCHANGED <<now, up, udirs, src, dirs, bin, ptemp, tbin, psave, media, nreq, failed>>

\* no 'error' listener here either, and the try/catch of the handler has
\* returned by the time the event is emitted: the process ends
ConverterSpawnError(p) ==
    /\ up
    /\ p \in procs /\ p.kind = "converter" /\ ~p.wrote
    /\ up' = FALSE
    /\ procs' = procs \ {p}
    /\ last' = [NoEv EXCEPT !.rid = p.rid, !.kind = "converter", !.fp = p.fp,
                            !.spawned = TRUE, !.code = ENOENT, !.branch = "uncaught",
                            !.descLeft = (p.rid \in converted.params)]
    /\ UNCHANGED <<now, fsvars, nreq, failed>>

----------------------------------------------------------------------------
(* POST /api/media/:filehash *)

\* path.join normalises its result: a ".." segment removes the segment before it
RECURSIVE Normalize(_, _)
Normalize(done, rest) ==
    IF rest = << >> THEN done
    ELSE IF Head(rest) = DOTDOT /\ done # << >> /\ done[Len(done)] # DOTDOT
    THEN Normalize(SubSeq(done, 1, Len(done) - 1), Tail(rest))
    ELSE Normalize(Append(done, Head(rest)), Tail(rest))

\* path.join(mediaDir, filename), relative to test/output
ImagePath(filehash, filename) == Normalize(<< >>, <<filehash, MEDIA>> \o filename)

\* `image_${Date.now()}.png`
DefaultImageName ==
    "image_" \o <<"0", "1", "2", "3", "4">>[now + 1] \o ".png"

MediaUpload(filehash, name, ct, payload) ==
    /\ up
    /\ nreq' = nreq + 1
    /\ LET rid == nreq + 1
           body == ParseBody(ct, payload)
           filename == IF name = NoName THEN <<DefaultImageName>> ELSE name
           imagePath == ImagePath(filehash, filename)
           mk == [media EXCEPT ![filehash].exists = TRUE]     \* mkdirSync(mediaDir)
           ev == [NoEv EXCEPT !.rid = rid, !.kind = "media", !.fh = filehash,
                              !.ct = ct, !.payload = payload, !.name = imagePath,
                              !.filename = filename]
       IN
       /\ dirs' = Mkdirp(filehash)
       /\ IF ~body.isBuffer THEN
              \* fs.writeFileSync rejects data that is neither string nor buffer
              /\ media' = mk
              /\ last' = [ev EXCEPT !.branch = "typeerror", !.status = 500]
              /\ UNCHANGED bin
          ELSE IF Len(imagePath) = 3 /\ imagePath[1] \in WorkDirs /\ imagePath[2] = MEDIA THEN
              /\ media' = [mk EXCEPT ![imagePath[1]].files =
                              {f \in @ : f.name # imagePath[3]}
                                  \cup {[name |-> imagePath[3], data |-> body.data]}]
              /\ last' = [ev EXCEPT !.branch = "uploaded", !.status = 200, !.success = TRUE,
                                    !.size = Len(body.data)]
              /\ UNCHANGED bin
          ELSE IF Len(imagePath) = 2 /\ imagePath[1] \in Mkdirp(filehash)
                    /\ imagePath[2] = EDITOR_BIN THEN
              /\ media' = mk
              /\ bin' = [bin EXCEPT ![imagePath[1]] = Written(body.data)]
              /\ last' = [ev EXCEPT !.branch = "uploaded", !.status = 200, !.success = TRUE,
                                    !.size = Len(body.data)]
          ELSE
              \* the directory of imagePath does not exist: ENOENT
              /\ media' = mk
              /\ last' = [ev EXCEPT !.branch = "enoent", !.status = 500]
              /\ UNCHANGED bin
    /\ UNCHANGED <<now, up, udirs, src, ptemp, tbin, psave, converted, procs, failed>>

----------------------------------------------------------------------------
(* GET /api/media/:filehash/:imagefile and GET /api/media-list/:filehash *)

\* what fs.existsSync(imagePath) and res.sendFile(imagePath) find at
\* path.join(mediaDir, imagefile)
MediaFile(filehash, imagefile) ==
    LET imagePath == ImagePath(filehash, imagefile)
    IN  IF /\ Len(imagePath) = 3 /\ imagePath[1] \in WorkDirs /\ imagePath[2] = MEDIA
           /\ \E f \in media[imagePath[1]].files : f.name = imagePath[3]
        THEN [exists |-> TRUE,
              data |-> (CHOOSE f \in media[imagePath[1]].files : f.name = imagePath[3]).data]
        ELSE IF /\ Len(imagePath) = 2 /\ imagePath[1] \in WorkDirs
                /\ imagePath[2] = EDITOR_BIN /\ bin[imagePath[1]].exists
        THEN [exists |-> TRUE, data |-> bin[imagePath[1]].content.data]
        ELSE [exists |-> FALSE, data |-> EMPTY]

\* fs.readdirSync(mediaDir), or [] when there is no media directory
MediaListing(filehash) ==
    IF ~media[filehash].exists THEN {}
    ELSE {f.name : f \in media[filehash].files}

MediaGet(filehash, imagefile) ==
    /\ up
    /\ nreq' = nreq + 1
    /\ LET file == MediaFile(filehash, imagefile)
           ev == [NoEv EXCEPT !.rid = nreq + 1, !.kind = "mediaget", !.fh = filehash,
                              !.filename = imagefile,
                              !.name = ImagePath(filehash, imagefile)]
       IN  last' = IF ~file.exists
                   THEN [ev EXCEPT !.branch = "notfound", !.status = 404]
                   ELSE [ev EXCEPT !.branch = "served", !.status = 200, !.success = TRUE,
                                   !.body = [by |-> 0, data |-> file.data],
                                   !.size = Len(file.data)]
    /\ UNCHANGED <<now, up, fsvars, procs, failed>>

MediaList(filehash) ==
    /\ up
    /\ nreq' = nreq + 1
    /\ last' = [NoEv EXCEPT !.rid = nreq + 1, !.kind = "medialist", !.fh = filehash,
                            !.branch = "listed", !.status = 200, !.success = TRUE,
                            !.list = MediaListing(filehash)]
    /\ UNCHANGED <<now, up, fsvars, procs, failed>>

----------------------------------------------------------------------------
(* The converter process *)

\* x2t writes its destination: Editor.bin for a convert, filepath for a
\* save, converted/<fileHash>.<outputtype> for /converter
X2tWrite(p) ==
    /\ p \in procs /\ ~p.wrote
    /\ CASE p.kind = "convert" ->
               /\ bin' = [bin EXCEPT ![p.dir] = X2tOutput(p.rid)]
               /\ UNCHANGED <<src, converted>>
         [] p.kind = "save" ->
               /\ src' = [src EXCEPT ![p.fp] = X2tOutput(p.rid)]
               /\ UNCHANGED <<bin, converted>>
         [] p.kind = "converter" ->
               /\ converted' = [converted EXCEPT !.outputs = @ \cup {p.rid}]
               /\ UNCHANGED <<src, bin>>
    /\ procs' = (procs \ {p}) \cup {[p EXCEPT !.wrote = TRUE]}
    /\ last' = NoEv
    /\ UNCHANGED <<now, up, udirs, dirs, ptemp, tbin, psave, media, nreq, failed>>

----------------------------------------------------------------------------

\* the scenario variables stay as they are outside the scenario
Free == script = 0 /\ UNCHANGED <<script, rt>> /\ UNCHANGED aside

Next ==
    \/ Tick /\ Free
    \/ \E p \in Touched, m \in 0..MaxTime : Touch(p, m) /\ Free
    \/ \E fp \in SourcePaths : nreq < MaxReq /\ ConvertRequest(fp) /\ Free
    \/ \E p \in procs, code \in ExitCodes, e \in Stderrs : ConvertClose(p, code, e) /\ Free
    \/ \E p \in procs : ConvertSpawnError(p) /\ Free
    \/ \E fp \in Paths, fh \in FileHashes, ct \in ContentTypes, b \in Payloads, f \in BOOLEAN :
          nreq < MaxReq /\ SaveRequest(fp, fh, ct, b, f) /\ Free
    \/ \E p \in procs, code \in ExitCodes, e \in Stderrs : SaveClose(p, code, e) /\ Free
    \/ \E p \in procs : SaveSpawnError(p) /\ Free
    \/ \E job \in ConverterJobs : nreq < MaxReq /\ ConverterRequest(job) /\ Free
    \/ \E p \in procs, code \in ExitCodes, e \in Stderrs : ConverterClose(p, code, e) /\ Free
    \/ \E p \in procs : ConverterSpawnError(p) /\ Free
    \/ \E fh \in MediaHashes, n \in MediaNames, ct \in ContentTypes, b \in MediaPayloads :
          nreq < MaxReq /\ MediaUpload(fh, n, ct, b) /\ Free
    \/ \E p \in procs : X2tWrite(p) /\ Free

Spec == Init /\ [][Next]_vars

----------------------------------------------------------------------------
(* Concurrent conversions: the convert endpoint alone, with more requests   *)
(* in flight than Spec allows.                                              *)

NextJobs ==
    \/ Tick /\ Free
    \/ \E p \in Touched, m \in 0..MaxTime : Touch(p, m) /\ Free
    \/ \E fp \in JobPaths : nreq < MaxJobs /\ ConvertRequest(fp) /\ Free
    \/ \E p \in procs, code \in ExitCodes, e \in Stderrs : ConvertClose(p, code, e) /\ Free
    \/ \E p \in procs : ConvertSpawnError(p) /\ Free
    \/ \E p \in procs : X2tWrite(p) /\ Free

SpecJobs == Init /\ [][NextJobs]_vars

----------------------------------------------------------------------------
(* The media endpoints alone: uploads, and reads of what was uploaded.      *)

NextMedia ==
    \/ Tick /\ Free
    \/ \E fh \in MediaHashes, n \in MediaNames, ct \in ContentTypes, b \in Payloads :
          nreq < MaxMedia /\ MediaUpload(fh, n, ct, b) /\ Free
    \/ \E fh \in MediaHashes, n \in MediaNames : nreq < MaxMedia /\ MediaGet(fh, n) /\ Free
    \/ \E fh \in MediaHashes : nreq < MaxMedia /\ MediaList(fh) /\ Free

SpecMedia == Init /\ [][NextMedia]_vars

----------------------------------------------------------------------------
(* The lookups of the format registry, called with every spelling of every  *)
(* extension.                                                               *)

NextUtils ==
    \/ \E e \in Extensions : \E format \in Spellings(e) : CallGetX2TFormatCode(e, format)
    \/ \E e \in Extensions : \E ext \in Spellings(e) : CallGetOutputFormatInfo(e, ext)
    \/ \E e \in Extensions : \E f \in FileNames(e) : CallGetDocTypeFromFilename(e, f)
    \/ \E e \in Extensions : \E f \in FileNames(e) : BuildOfflineLoaderUrl(e, f)

SpecUtils == Init /\ [][NextUtils]_vars

----------------------------------------------------------------------------
(* Concurrent saves: the save endpoint alone, with a fingerprint or         *)
(* without one, with more requests in flight than Spec allows.              *)

SavePaths == {PA, PB}
SavePayloads == {SHORT, BINARY}

\* a destination of an unsupported format in a directory that does not exist
PD == <<"/", "d", "/", "c", ".", "p", "d", "f">>

NextSaves ==
    \/ \E fp \in SavePaths, fh \in FileHashes, b \in SavePayloads, f \in BOOLEAN :
          nreq < MaxJobs /\ SaveRequest(fp, fh, "application/octet-stream", b, f) /\ Free
    \/ \E fh \in FileHashes :
          nreq < MaxJobs /\ SaveRequest(PD, fh, "application/octet-stream", BINARY, FALSE) /\ Free
    \/ \E p \in procs, code \in ExitCodes, e \in Stderrs : SaveClose(p, code, e) /\ Free
    \/ \E p \in procs : SaveSpawnError(p) /\ Free
    \/ \E p \in procs : X2tWrite(p) /\ Free

SpecSaves == Init /\ [][NextSaves]_vars

----------------------------------------------------------------------------
(* Edits during a conversion: the convert endpoint while the user edits the *)
(* source; the converter reads the source at some time after it is spawned  *)
(* and writes Editor.bin at some later time.                                *)

Untracked == script = 0 /\ UNCHANGED <<script, rt, call, stub, answered, watch>>

\* the user saves a new content of p: the content changes and the mtime
\* becomes the current time
Edit(p) ==
    /\ Touch(p, now)
    /\ prov' = [prov EXCEPT !.src[p] = @ + 1]
    /\ Untracked

\* x2t reads m_sFileFrom
X2tRead(p) ==
    /\ p \in procs /\ p.kind = "convert" /\ ~p.wrote
    /\ prov.read[p.rid] = Unread
    /\ prov' = [prov EXCEPT !.read[p.rid] = prov.src[p.fp]]
    /\ last' = NoEv
    /\ UNCHANGED <<now, up, fsvars, procs, nreq, failed>>
    /\ Untracked

\* x2t writes Editor.bin from what it read
X2tWriteRead(p) ==
    /\ p \in procs /\ p.kind = "convert"
    /\ prov.read[p.rid] # Unread
    /\ X2tWrite(p)
    /\ prov' = [prov EXCEPT !.art[p.dir] = prov.read[p.rid]]
    /\ Untracked

NextStale ==
    \/ Tick /\ Untracked /\ UNCHANGED prov
    \/ \E p \in Touched : Edit(p)
    \/ \E fp \in Touched : nreq < MaxJobs /\ ConvertRequest(fp) /\ Untracked /\ UNCHANGED prov
    \/ \E p \in procs : X2tRead(p)
    \/ \E p \in procs : X2tWriteRead(p)
    \/ \E p \in procs, code \in ExitCodes, e \in Stderrs :
          ConvertClose(p, code, e) /\ Untracked /\ UNCHANGED prov
    \/ \E p \in procs : ConvertSpawnError(p) /\ Untracked /\ UNCHANGED prov

SpecStale == Init /\ [][NextStale]_vars

----------------------------------------------------------------------------
(* Responses: the convert and save endpoints under the assumption that     *)
(* every spawned converter eventually exits or fails to start.              *)

LivePaths == {PA, PB}

\* res.status(...).send(...) / res.send(...) / res.json(...): the step sent a
\* response to the request it handled
Answering ==
    /\ script = 0
    /\ UNCHANGED <<script, rt, call, stub, prov, watch>>
    /\ answered' = IF last'.status # 0 /\ last'.rid \in Requests
                   THEN [answered EXCEPT ![last'.rid] = @ + 1]
                   ELSE answered

\* the child process of a request emits 'close', or 'error' when it could
\* not be started
ConverterEnds ==
    \E p \in procs :
        \/ \E code \in ExitCodes, e \in Stderrs : ConvertClose(p, code, e) /\ Answering
        \/ ConvertSpawnError(p) /\ Answering
        \/ \E code \in ExitCodes, e \in Stderrs : SaveClose(p, code, e) /\ Answering
        \/ SaveSpawnError(p) /\ Answering

NextLive ==
    \/ \E fp \in LivePaths : nreq < MaxLive /\ ConvertRequest(fp) /\ Answering
    \/ \E p \in procs, code \in ExitCodes, e \in Stderrs : ConvertClose(p, code, e) /\ Answering
    \/ \E p \in procs : ConvertSpawnError(p) /\ Answering
    \/ \E ct \in ContentTypes, b \in Payloads, f \in BOOLEAN :
          nreq < MaxLive /\ SaveRequest(PA, generateFileHash(PA), ct, b, f) /\ Answering
    \/ \E p \in procs, code \in ExitCodes, e \in Stderrs : SaveClose(p, code, e) /\ Answering
    \/ \E p \in procs : SaveSpawnError(p) /\ Answering
    \/ \E p \in procs : X2tWrite(p) /\ Answering

SpecLive == Init /\ [][NextLive]_vars /\ WF_vars(ConverterEnds)

----------------------------------------------------------------------------
(* The desktop stub of the editor page (AscDesktopEditor) *)

\* time passes in the page
Advance(t) ==
    /\ t > clock
    /\ clock' = t
    /\ ret' = NoRet
    /\ UNCHANGED <<server, answered, prov, call, window, timers, posts, seen>>

\* the loader page gives the window (or its parent) the path of the document
SetFilepath(fp) ==
    /\ window.ONLYOFFICE_FILEPATH = NoPath
    /\ window' = [window EXCEPT !.ONLYOFFICE_FILEPATH = fp]
    /\ ret' = NoRet
    /\ UNCHANGED <<server, answered, prov, call, clock, timers, posts, seen>>

\* the SDK creates the editor object
EditorReady(e) ==
    /\ window.editor = "none"
    /\ window' = [window EXCEPT !.editor = e]
    /\ ret' = NoRet
    /\ UNCHANGED <<server, answered, prov, call, clock, timers, posts, seen>>

\* changes: the length of the array the SDK passes
LocalFileSaveChanges(changes) ==
    /\ window.documentChanges < MaxChanges
    /\ window' = IF changes > 0
                 THEN [window EXCEPT !.documentChanges = @ + 1,
                                     !.hasUnsavedChanges = TRUE,
                                     !.userHasEdited = TRUE,
                                     !.documentModified = TRUE]
                 ELSE window
    /\ ret' = [NoRet EXCEPT !.op = "LocalFileSaveChanges", !.value = "undefined"]
    /\ seen' = [seen EXCEPT !.edited = @ \/ changes > 0]
    /\ UNCHANGED <<server, answered, prov, call, clock, timers, posts>>

\* a save that goes on although nothing was modified
SaveSkippedNever == FALSE

\* if (!window._documentModified) return true
SaveSkipped == ~window.documentModified

\* what a call of LocalFileSave returns and whether it schedules the export
LocalFileSaveResult ==
    IF SaveSkipped THEN [value |-> "true", scheduled |-> FALSE]
    ELSE IF window.ONLYOFFICE_FILEPATH = NoPath THEN [value |-> "false", scheduled |-> FALSE]
    ELSE IF window.editor = "none" THEN [value |-> "false", scheduled |-> FALSE]
    ELSE [value |-> "true", scheduled |-> TRUE]

\* setTimeout(function() {...}, 2000)
Scheduled(r) == IF r.scheduled THEN Append(timers, clock + 2000) ELSE timers

LocalFileSave ==
    /\ LET r == LocalFileSaveResult
       IN  /\ r.scheduled => Len(timers) < MaxTimers
           /\ timers' = Scheduled(r)
           /\ ret' = [NoRet EXCEPT !.op = "LocalFileSave", !.value = r.value,
                                   !.scheduled = r.scheduled]
    /\ UNCHANGED <<server, answered, prov, call, window, clock, posts, seen>>

\* the callback of setTimeout: export the binary and POST it to /api/save;
\* exported: the export method returned data
ExportTimer(exported) ==
    /\ timers # << >> /\ Head(timers) <= clock
    /\ timers' = Tail(timers)
    /\ LET post == window.editor \in {"asc_nativeGetFileData", "asc_nativeGetFile"} /\ exported
       IN  /\ post => posts < MaxPosts
           /\ posts' = IF post THEN posts + 1 ELSE posts
           /\ ret' = [NoRet EXCEPT !.op = "export", !.value = IF post THEN "posted" ELSE "undefined"]
    /\ UNCHANGED <<server, answered, prov, call, window, clock, seen>>

\* the fetch settles: with a JSON body (then) or with a failure (catch)
SaveFetchSettled(json) ==
    /\ posts > 0
    /\ posts' = posts - 1
    /\ window' = IF json THEN [window EXCEPT !.hasUnsavedChanges = FALSE] ELSE window
    /\ ret' = [NoRet EXCEPT !.op = "fetch", !.value = IF json THEN "saved" ELSE "failed"]
    /\ UNCHANGED <<server, answered, prov, call, clock, timers, seen>>

onDocumentContentReady ==
    /\ window' = [window EXCEPT !.documentLoaded = TRUE, !.hasUnsavedChanges = FALSE]
    /\ ret' = [NoRet EXCEPT !.op = "onDocumentContentReady", !.value = "undefined"]
    /\ UNCHANGED <<server, answered, prov, call, clock, timers, posts, seen>>

\* a callback that accepts modified=false whatever was edited
AcceptsFalseAlways == TRUE

\* if (!window._userHasEdited && !hasChanges)
AcceptsFalse == ~window.userHasEdited /\ ~(window.documentChanges > 0)

onDocumentModifiedChanged(modified) ==
    /\ IF window.lastModifiedChangedTime # 0 /\ clock - window.lastModifiedChangedTime < 100
       THEN /\ ret' = [NoRet EXCEPT !.op = "onDocumentModifiedChanged", !.arg = modified,
                                    !.value = "undefined"]
            /\ UNCHANGED <<window, seen>>
       ELSE /\ ret' = [NoRet EXCEPT !.op = "onDocumentModifiedChanged", !.arg = modified,
                                    !.value = "undefined", !.accepted = TRUE]
            /\ seen' = [seen EXCEPT !.edited = @ \/ modified]
            /\ window' =
                 IF modified
                 THEN [window EXCEPT !.lastModifiedChangedTime = clock,
                                     !.documentModified = TRUE,
                                     !.hasUnsavedChanges = TRUE,
                                     !.userHasEdited = TRUE]
                 ELSE IF AcceptsFalse
                 THEN [window EXCEPT !.lastModifiedChangedTime = clock,
                                     !.documentModified = FALSE,
                                     !.hasUnsavedChanges = FALSE]
                 ELSE [window EXCEPT !.lastModifiedChangedTime = clock,
                                     !.documentModified = TRUE,
                                     !.hasUnsavedChanges = TRUE]
    /\ UNCHANGED <<server, answered, prov, call, clock, timers, posts>>

\* a throttle that lets every request through
OnSaveTooFrequentNever == FALSE

\* if (window._lastOnSaveTime && now - window._lastOnSaveTime < 2000)
OnSaveTooFrequent ==
    window.lastOnSaveTime # 0 /\ clock - window.lastOnSaveTime < 2000

OnSave ==
    /\ IF ~window.documentModified \/ OnSaveTooFrequent
       THEN /\ ret' = [NoRet EXCEPT !.op = "OnSave", !.value = "false"]
            /\ UNCHANGED <<window, timers, seen>>
       ELSE LET r == LocalFileSaveResult
            IN  /\ r.scheduled => Len(timers) < MaxTimers
                /\ window' = [window EXCEPT !.lastOnSaveTime = clock]
                /\ timers' = Scheduled(r)
                /\ seen' = [seen EXCEPT !.started = Append(@, clock)]
                /\ ret' = [NoRet EXCEPT !.op = "OnSave", !.value = r.value,
                                        !.invoked = TRUE, !.scheduled = r.scheduled]
    /\ UNCHANGED <<server, answered, prov, call, clock, posts>>

\* a detection that is forgotten by the next call
GetSavedLatchedNever == FALSE

\* if (window._infiniteLoopGetSavedDetected) return undefined
GetSavedLatched == window.infiniteLoopGetSavedDetected

\* the call times kept: those less than a second before now
LastSecond(times) == SelectSeq(times, LAMBDA time : clock - time < 1000)

LocalFileGetSaved ==
    /\ Len(seen.calls) < MaxCalls
    /\ seen' = [seen EXCEPT !.calls = Append(@, clock)]
    /\ IF GetSavedLatched
       THEN /\ ret' = [NoRet EXCEPT !.op = "LocalFileGetSaved", !.value = "undefined"]
            /\ UNCHANGED window
       ELSE LET times == LastSecond(Append(window.localFileGetSavedCallTimes, clock))
            IN  IF Len(times) > INFINITE_LOOP_THRESHOLD
                   /\ ~window.infiniteLoopGetSavedWarningShown
                THEN /\ window' = [window EXCEPT !.localFileGetSavedCallTimes = times,
                                                 !.infiniteLoopGetSavedWarningShown = TRUE,
                                                 !.infiniteLoopGetSavedDetected = TRUE]
                     /\ ret' = [NoRet EXCEPT !.op = "LocalFileGetSaved", !.value = "undefined"]
                ELSE /\ window' = [window EXCEPT !.localFileGetSavedCallTimes = times]
                     /\ ret' = [NoRet EXCEPT !.op = "LocalFileGetSaved",
                                             !.value = IF window.hasUnsavedChanges
                                                       THEN "false" ELSE "true"]
    /\ UNCHANGED <<server, answered, prov, call, clock, timers, posts>>

\* outside SpecSdk nothing is observed
Unwatched == UNCHANGED watch

NextStub ==
    \/ \E t \in Instants : Advance(t) /\ Unwatched
    \/ \E fp \in {PA, PR} : SetFilepath(fp) /\ Unwatched
    \/ \E e \in Editors : EditorReady(e) /\ Unwatched
    \/ \E n \in 0..1 : LocalFileSaveChanges(n) /\ Unwatched
    \/ LocalFileSave /\ Unwatched
    \/ \E exported \in BOOLEAN : ExportTimer(exported) /\ Unwatched
    \/ \E json \in BOOLEAN : SaveFetchSettled(json) /\ Unwatched
    \/ onDocumentContentReady /\ Unwatched
    \/ \E modified \in BOOLEAN : onDocumentModifiedChanged(modified) /\ Unwatched
    \/ OnSave /\ Unwatched

SpecStub == Init /\ [][NextStub]_vars

NextLoop ==
    \/ \E t \in LoopInstants : Advance(t) /\ Unwatched
    \/ \E n \in 0..1 : LocalFileSaveChanges(n) /\ Unwatched
    \/ onDocumentContentReady /\ Unwatched
    \/ LocalFileGetSaved /\ Unwatched

SpecLoop == Init /\ [][NextLoop]_vars

----------------------------------------------------------------------------
(* The stub as the SDK drives it around a save: edits, notifications, the   *)
(* save, the server's response to the POST, and the SDK asking whether the  *)
(* document is saved.                                                       *)

\* the responses of POST /api/save: 200 with a JSON body, 400 with a JSON
\* body (filepath missing or not absolute), 400 or 500 with a text body, and
\* no response at all (status 0: the request failed)
Responses ==
    {[status |-> 200, json |-> TRUE], [status |-> 400, json |-> TRUE],
     [status |-> 400, json |-> FALSE], [status |-> 500, json |-> FALSE],
     [status |-> 0, json |-> FALSE]}

\* the responses the server can give to the POST of this page: a filepath
\* that is not absolute is rejected with a JSON body before anything else
Answerable(r) ==
    IF isAbsolutePath(window.ONLYOFFICE_FILEPATH)
    THEN r # [status |-> 400, json |-> TRUE]
    ELSE r.status \in {400, 0} /\ (r.status = 400 => r.json)

\* the step is an edit: a change is stored or the SDK notifies modified=true
Edited ==
    \/ ret'.op = "LocalFileSaveChanges" /\ window'.documentChanges > window.documentChanges
    \/ ret'.op = "onDocumentModifiedChanged" /\ ret'.arg

Watch ==
    watch' = [watch EXCEPT
                !.saved = IF Edited THEN FALSE ELSE @,
                !.notified = IF ret'.op = "onDocumentModifiedChanged"
                             THEN (IF ret'.arg THEN "true" ELSE "false") ELSE @]

\* the page receives the response to its POST
SaveResponse(r) ==
    /\ Answerable(r)
    /\ SaveFetchSettled(r.json)
    /\ watch' = [watch EXCEPT !.status = r.status,
                              !.saved = @ \/ r.status = 200]

NextSdk ==
    \/ \E t \in Instants : Advance(t) /\ Watch
    \/ \E fp \in {PA, PR} : SetFilepath(fp) /\ Watch
    \/ EditorReady("asc_nativeGetFileData") /\ Watch
    \/ LocalFileSaveChanges(1) /\ Watch
    \/ LocalFileSave /\ Watch
    \/ ExportTimer(TRUE) /\ Watch
    \/ \E r \in Responses : SaveResponse(r)
    \/ \E modified \in BOOLEAN : onDocumentModifiedChanged(modified) /\ Watch
    \/ Len(seen.calls) < MaxAsked /\ LocalFileGetSaved /\ Watch

SpecSdk == Init /\ [][NextSdk]_vars

----------------------------------------------------------------------------
(* Dropped files: the 'drop' listener of the page and GetDropFiles. A file  *)
(* of a drop is its position in the drop and whether its extension is an    *)
(* image's; the blob URL of a file is identified with the file.             *)

\* the file lists a drop event can deliver
DropLists ==
    UNION {{[j \in 1..n |-> [i |-> j, image |-> images[j]]] : images \in [1..n -> BOOLEAN]} :
             n \in 0..MaxDrop}

\* the page learns the fingerprint of its document from its parent
SetFileHash(h) ==
    /\ window.ONLYOFFICE_FILE_HASH = ""
    /\ window' = [window EXCEPT !.ONLYOFFICE_FILE_HASH = h]
    /\ ret' = NoRet
    /\ UNCHANGED <<server, answered, prov, call, clock, timers, posts, seen>>

\* for (var blobUrl in window._uploadedFileMap) { alreadyHasBlobUrl = true; break; }
AlreadyHasBlobUrl(file) == window.uploadedFileMap # << >>

\* document.addEventListener('drop', ...); ok[j]: the upload of the j-th file,
\* when it is uploaded, is answered with 200
Drop(files, ok) ==
    /\ LET uploading(j) == files[j].image /\ window.ONLYOFFICE_FILE_HASH # ""
           Pick(test(_)) ==
               LET RECURSIVE from(_)
                   from(j) == IF j > Len(files) THEN << >>
                              ELSE IF test(j) THEN <<files[j]>> \o from(j + 1)
                              ELSE from(j + 1)
               IN  from(1)
           uploaded(j) == uploading(j) /\ ok[j]
           kept(j) == ~uploading(j) \/ ok[j]
       IN  window' = [window EXCEPT !.droppedFiles = Pick(kept),
                                    !.uploadedFileMap = Pick(uploaded)]
    /\ ret' = [NoRet EXCEPT !.op = "drop", !.value = "undefined"]
    /\ seen' = [seen EXCEPT !.dropped = files,
                             !.refused = {files[j] : j \in {k \in DOMAIN files :
                                 files[k].image /\ window.ONLYOFFICE_FILE_HASH # "" /\ ~ok[k]}}]
    /\ UNCHANGED <<server, answered, prov, call, clock, timers, posts>>

GetDropFiles ==
    /\ LET RECURSIVE others(_)
           others(j) == IF j > Len(window.droppedFiles) THEN << >>
                        ELSE IF AlreadyHasBlobUrl(window.droppedFiles[j]) THEN others(j + 1)
                        ELSE <<window.droppedFiles[j]>> \o others(j + 1)
           blobUrls == window.uploadedFileMap \o others(1)
       IN  /\ ret' = [NoRet EXCEPT !.op = "GetDropFiles", !.value = "urls", !.urls = blobUrls]
           /\ window' = [window EXCEPT
                           !.droppedFiles = << >>,
                           !.blobFileMap = @ \cup {others(1)[j] : j \in DOMAIN others(1)}]
    /\ seen' = [seen EXCEPT !.dropped = << >>, !.refused = {}]
    /\ UNCHANGED <<server, answered, prov, call, clock, timers, posts>>

NextDrop ==
    \/ SetFileHash(generateFileHash(PA)) /\ Unwatched
    \/ \E files \in DropLists : \E ok \in [DOMAIN files -> BOOLEAN] : Drop(files, ok) /\ Unwatched
    \/ GetDropFiles /\ Unwatched

SpecDrop == Init /\ [][NextDrop]_vars

----------------------------------------------------------------------------
(* The cache round-trip scenario: from any quiescent state in which P has   *)
(* no artifact, convert(P); convert(P); touch P forward; convert(P), with a *)
(* converter that succeeds and nothing else happening but the clock.        *)

RTFirst(p) ==
    /\ script = 0
    /\ procs = {}
    /\ src[p].exists /\ isAbsolutePath(p)
    /\ ~bin[generateFileHash(p)].exists
    /\ ConvertRequest(p)
    /\ script' = 1
    /\ rt' = [NoRt EXCEPT !.p = p, !.b1 = last'.branch, !.rid1 = last'.rid]
    /\ UNCHANGED aside

RTWrite ==
    /\ script \in {1, 6}
    /\ \E q \in procs : X2tWrite(q)
    /\ script' = script + 1
    /\ rt' = rt
    /\ UNCHANGED aside

RTClose ==
    /\ script \in {2, 7}
    /\ \E q \in procs, e \in Stderrs : ConvertClose(q, 0, e)
    /\ script' = script + 1
    /\ rt' = IF script = 2
             THEN [rt EXCEPT !.status1 = last'.status, !.xcache1 = last'.xcache,
                             !.body1 = last'.body]
             ELSE [rt EXCEPT !.status3 = last'.status, !.xcache3 = last'.xcache,
                             !.body3 = last'.body,
                             !.artifact3 = bin'[generateFileHash(rt.p)].content]
    /\ UNCHANGED aside

RTSecond ==
    /\ script = 3
    /\ ConvertRequest(rt.p)
    /\ script' = 4
    /\ rt' = [rt EXCEPT !.b2 = last'.branch, !.status2 = last'.status,
                        !.body2 = last'.body, !.spawned2 = last'.spawned,
                        !.cacheMtime2 = bin[generateFileHash(rt.p)].mtime,
                        !.sourceMtime2 = src[rt.p].mtime]
    /\ UNCHANGED aside

\* a second call that missed runs its converter to the end before the touch
RTSettle ==
    /\ script = 4
    /\ \E q \in procs :
          \/ X2tWrite(q)
          \/ q.wrote /\ \E e \in Stderrs : ConvertClose(q, 0, e)
    /\ UNCHANGED <<script, rt>>
    /\ UNCHANGED aside

RTTouch(m) ==
    /\ script = 4
    /\ procs = {}
    /\ m > src[rt.p].mtime
    /\ Touch(rt.p, m)
    /\ script' = 5
    /\ rt' = [rt EXCEPT !.touchedTo = m,
                        !.cacheMtime3 = bin[generateFileHash(rt.p)].mtime]
    /\ UNCHANGED aside

RTThird ==
    /\ script = 5
    /\ ConvertRequest(rt.p)
    /\ script' = 6
    /\ rt' = [rt EXCEPT !.b3 = last'.branch, !.spawned3 = last'.spawned,
                        !.rid3 = last'.rid]
    /\ UNCHANGED aside

RTTick ==
    /\ script > 0
    /\ Tick
    /\ UNCHANGED <<script, rt>>
    /\ UNCHANGED aside

NextRoundTrip ==
    \/ Next
    \/ \E p \in FilePaths : RTFirst(p)
    \/ RTWrite
    \/ RTClose
    \/ RTSecond
    \/ RTSettle
    \/ \E m \in 0..MaxTime : RTTouch(m)
    \/ RTThird
    \/ RTTick

SpecRoundTrip == Init /\ [][NextRoundTrip]_vars

----------------------------------------------------------------------------
(* The save round-trip scenario: from any quiescent state, convert a .csv   *)
(* source, then post the bytes of the successful response to save with a    *)
(* .csv target and the X-File-Hash of that response.                        *)

SRConvert(p) ==
    /\ script = 0
    /\ procs = {}
    /\ src[p].exists /\ isAbsolutePath(p)
    /\ ToLowerCase(Extname(p)) = CSV_EXT
    /\ ConvertRequest(p)
    /\ script' = IF last'.branch = "hit" THEN 13 ELSE 11
    /\ rt' = [NoRt EXCEPT !.p = p, !.b1 = last'.branch, !.rid1 = last'.rid,
                          !.status1 = last'.status, !.body1 = last'.body,
                          !.fh1 = last'.xhash]
    /\ UNCHANGED aside

SRWrite ==
    /\ script \in {11, 14}
    /\ \E q \in procs : X2tWrite(q)
    /\ script' = script + 1
    /\ rt' = rt
    /\ UNCHANGED aside

SRConvertClose ==
    /\ script \in {11, 12}
    /\ \E q \in procs, code \in ExitCodes, e \in Stderrs : ConvertClose(q, code, e)
    /\ script' = 13
    /\ rt' = [rt EXCEPT !.status1 = last'.status, !.body1 = last'.body,
                        !.fh1 = last'.xhash]
    /\ UNCHANGED aside

SRSave(target, ct, fault) ==
    /\ script = 13
    /\ rt.status1 = 200
    /\ ~isXLSXSignature(rt.body1.data)
    /\ ToLowerCase(Extname(target)) = CSV_EXT
    /\ SaveRequest(target, rt.fh1, ct, rt.body1.data, fault)
    /\ script' = IF last'.spawned THEN 14 ELSE 16
    /\ rt' = [rt EXCEPT !.saveBranch = last'.branch, !.saveStatus = last'.status,
                        !.saveSpawned = last'.spawned]
    /\ UNCHANGED aside

SRSaveClose ==
    /\ script \in {14, 15}
    /\ \E q \in procs :
          \/ \E code \in ExitCodes, e \in Stderrs : SaveClose(q, code, e)
          \/ SaveSpawnError(q)
    /\ script' = 16
    /\ rt' = [rt EXCEPT !.saveBranch = last'.branch, !.saveStatus = last'.status,
                        !.saveSuccess = last'.success, !.saveSize = last'.size,
                        !.saveCode = last'.code, !.saveWrote = last'.wrote]
    /\ UNCHANGED aside

NextSaveRoundTrip ==
    \/ Next
    \/ \E p \in FilePaths : SRConvert(p)
    \/ SRWrite
    \/ SRConvertClose
    \/ \E target \in FilePaths, ct \in ContentTypes, fault \in BOOLEAN : SRSave(target, ct, fault)
    \/ SRSaveClose
    \/ RTTick

SpecSaveRoundTrip == Init /\ [][NextSaveRoundTrip]_vars

----------------------------------------------------------------------------
(* Properties of the cache check *)

RequestRun == last.rid = nreq /\ last.rid > 0
ConvertChecked == last.kind = "convert" /\ last.branch \in {"hit", "miss"}

\* C1: GET /api/convert answers from the cache, without spawning the
\* converter, if and only if Editor.bin exists and its modification time is
\* strictly greater than the source's at the moment of the check; otherwise
\* (equal, older or absent) the converter is spawned.
C1_CacheHitIffStrictlyNewer ==
    ConvertChecked =>
        /\ (last.branch = "hit") <=>
               (last.obs.exists /\ last.obs.cacheMtime > last.obs.sourceMtime)
        /\ last.branch = "hit" =>
               /\ ~last.spawned /\ last.status = 200 /\ last.xcache = "HIT"
               /\ last.body = bin[last.fh].content
               /\ \A p \in procs : p.rid # last.rid
        /\ last.branch = "miss" =>
               /\ last.spawned /\ last.status = 0
               /\ \E p \in procs : p.rid = last.rid /\ p.kind = "convert"

C1_Witness ==
    /\ ConvertChecked /\ last.branch = "hit"
    /\ last.obs.cacheMtime = last.obs.sourceMtime + 1

\* C2 (as stated): in convert(P); convert(P); touch P forward; convert(P)
\* with a converter that succeeds, the first call is a miss that creates the
\* artifact, the second a hit with the bytes of the first response and no
\* converter, the third a miss that runs the converter again and overwrites
\* the artifact.
C2_FirstMissCreates ==
    /\ script >= 1 => rt.b1 = "miss"
    /\ script >= 3 => /\ rt.status1 = 200 /\ rt.xcache1 = "MISS"
                      /\ rt.body1.by = rt.rid1

C2_SecondHit ==
    /\ rt.b2 = "hit" /\ rt.status2 = 200
    /\ rt.body2 = rt.body1
    /\ ~rt.spawned2

C2_ThirdMiss ==
    /\ script >= 6 => rt.b3 = "miss" /\ rt.spawned3
    /\ script = 8 => /\ rt.status3 = 200 /\ rt.xcache3 = "MISS"
                     /\ rt.artifact3.by = rt.rid3
                     /\ rt.body3 = rt.artifact3

C2_RoundTrip ==
    /\ C2_FirstMissCreates
    /\ script >= 4 => C2_SecondHit
    /\ script >= 6 => C2_ThirdMiss

\* C2 (amended): the second call is that hit provided the artifact's
\* modification time is strictly greater than P's, and the third call is that
\* miss provided the touch moved P's modification time to at least the
\* artifact's.
C2_RoundTripByMtime ==
    /\ C2_FirstMissCreates
    /\ (script >= 4 /\ rt.cacheMtime2 > rt.sourceMtime2) => C2_SecondHit
    /\ (script >= 6 /\ rt.touchedTo >= rt.cacheMtime3) => C2_ThirdMiss

C2_Witness ==
    /\ script = 8
    /\ rt.b2 = "hit" /\ rt.cacheMtime2 > rt.sourceMtime2
    /\ rt.touchedTo >= rt.cacheMtime3
    /\ rt.artifact3.by = rt.rid3

----------------------------------------------------------------------------
(* Properties of the converter's exit paths *)

Closed == last.spawned /\ last.branch \in {"converted", "nonzero", "missing"}

\* C3: after a convert call has ended on any path (exit 0, non-zero exit,
\* missing output, converter not started), params_temp.xml is no longer in
\* the working directory.
C3_ConvertDescriptorDeleted ==
    (last.kind = "convert" /\ last.branch \in {"converted", "nonzero", "missing", "uncaught"})
        => ~last.descLeft

\* C4: after a save through the conversion branch has returned (success,
\* non-zero exit, missing output, spawn failure, failed descriptor write),
\* neither temp_changes.bin nor params_save.xml is in the directory it used.
C4_SaveTempFilesDeleted ==
    (last.kind = "save" /\ last.branch \in {"converted", "nonzero", "missing", "descfail"})
        => ~last.descLeft /\ ~last.tempLeft

\* C5: a converter that exits with code zero without having produced the
\* destination during that invocation never leads to a success response,
\* also when an earlier file is at the destination path.
C5_ZeroExitWithoutOutputFails ==
    (Closed /\ last.code = 0 /\ ~last.wrote) => (last.status = 500 /\ ~last.success)

\* C6: the branch after the converter exits depends only on the exit code
\* (and the existence of the destination): a non-zero exit always yields an
\* error response without artifact bytes, also when the destination exists,
\* whatever was captured on stderr.
C6_ExitCodeDecides ==
    Closed =>
        /\ last.code # 0 =>
               /\ last.status = 500 /\ ~last.success
               /\ last.body = NoContent /\ last.xcache = ""
        /\ (last.status = 200) <=> (last.code = 0 /\ last.outExists)
        /\ last.status \in {200, 500}

C6_Witness ==
    Closed /\ last.kind = "convert" /\ last.code # 0 /\ last.outExists /\ last.stderr = ""

\* C7: when the converter cannot be started, convert and save answer with a
\* converter error, no fault escapes the handler, and the server stays up.
C7_SpawnFailureSurfaced ==
    /\ up
    /\ last.code = ENOENT => last.status = 500

----------------------------------------------------------------------------
(* Properties of the save handler *)

SaveRun == last.kind = "save" /\ RequestRun
ConversionBranches == {"unsupported", "enoent", "descfail", "convert"}

\* C8: save selects its branch from the payload bytes only: a payload that
\* begins with 50 4B 03 04 takes the direct-write branch whatever the
\* Content-Type, every other payload the conversion branch.
C8_BranchFromPayloadOnly ==
    (SaveRun /\ last.branch # "invalid") =>
        IF Len(last.payload) >= 4 /\ SubSeq(last.payload, 1, 4) = <<80, 75, 3, 4>>
        THEN last.branch = "direct"
        ELSE last.branch \in ConversionBranches

\* C9: on the direct-write branch save writes the payload to filepath byte
\* for byte, reports its length as size, spawns no converter and creates
\* neither temp_changes.bin nor params_save.xml.
C9_DirectWriteVerbatim ==
    [][(last'.kind = "save" /\ last'.branch = "direct" /\ last'.rid = nreq + 1) =>
          /\ src'[last'.fp].exists
          /\ src'[last'.fp].content.data = last'.payload
          /\ last'.status = 200 /\ last'.success
          /\ last'.size = Len(last'.payload)
          /\ ~last'.spawned /\ procs' = procs
          /\ tbin' = tbin /\ psave' = psave /\ ptemp' = ptemp /\ bin' = bin
          /\ \A q \in FilePaths \ {last'.fp} : src'[q] = src[q]]_vars

C9_Witness ==
    SaveRun /\ last.branch = "direct" /\ last.status = 200 /\ last.fp = PB

\* C10: a save whose filepath is missing or not absolute is rejected with a
\* client error, and the filesystem and the set of processes are the same
\* after the call as before it.
C10_InvalidPathRejectedUntouched ==
    [][(last'.kind = "save" /\ last'.rid = nreq + 1
            /\ (last'.fp = NoPath \/ ~isAbsolutePath(last'.fp))) =>
          /\ last'.status = 400 /\ last'.branch = "invalid"
          /\ ~last'.spawned /\ procs' = procs
          /\ UNCHANGED fsvars]_vars

C10_Witness ==
    SaveRun /\ last.fp = PR /\ last.status = 400

----------------------------------------------------------------------------
(* Properties of the failure paths and of the frame of each call *)

\* C11: on the conversion branch (a raw body without the ZIP signature), a
\* save whose filepath extension has no output-format record is answered
\* with 400 and writes no temp_changes.bin, no descriptor and spawns nothing.
C11_UnsupportedFormatRejected ==
    [][(/\ last'.kind = "save" /\ last'.rid = nreq + 1
        /\ last'.fp # NoPath /\ isAbsolutePath(last'.fp)
        /\ last'.ct = "application/octet-stream"
        /\ ~isXLSXSignature(last'.payload)
        /\ getOutputFormatInfo(ToLowerCase(Extname(last'.fp))) = NoFormat) =>
          /\ last'.status = 400 /\ last'.branch = "unsupported"
          /\ ~last'.spawned /\ procs' = procs
          /\ tbin' = tbin /\ psave' = psave /\ ptemp' = ptemp]_vars

C11_Witness ==
    /\ SaveRun /\ last.branch = "unsupported" /\ last.status = 400
    /\ last.fp = PC /\ last.fh \in dirs

\* C12: a convert of an absolute path at which no file exists is answered
\* with 404, and no directory, descriptor, process or Editor.bin is created,
\* read or changed by the call.
C12_SourceNotFoundLeavesCache ==
    [][(/\ last'.kind = "convert" /\ last'.rid = nreq + 1
        /\ last'.fp # NoPath /\ isAbsolutePath(last'.fp)
        /\ ~src[last'.fp].exists) =>
          /\ last'.status = 404 /\ last'.obs = NoObs
          /\ ~last'.spawned /\ procs' = procs
          /\ UNCHANGED fsvars]_vars

C12_Witness ==
    /\ RequestRun /\ last.kind = "convert" /\ last.fp = PB
    /\ last.status = 404

\* C13: the bytes of every successful convert response (hit, or end of a
\* miss) were written by a converter invocation that exited with code zero,
\* never by one that failed.
C13_ServedArtifactFromSuccessfulRun ==
    (last.kind = "convert" /\ last.status = 200) => last.body.by \notin failed

\* C14: no run of the save handler or of its close handler removes a file
\* that was at the destination filepath before it.
C14_SaveKeepsDestination ==
    [][(/\ last'.kind = "save" /\ last'.rid > 0
        /\ last'.fp \in FilePaths /\ src[last'.fp].exists) =>
          src'[last'.fp].exists]_vars

C14_Witness ==
    /\ last.kind = "save" /\ last.spawned
    /\ last.branch = "nonzero" /\ ~last.wrote
    /\ src[last.fp].exists

\* C15: convert requests for one path are not serialized: a request that
\* misses spawns its converter also while another converter works in the same
\* working directory, and each write of a converter replaces Editor.bin, so
\* the artifact on disk is that of the converter that wrote last.
C15_NoMutualExclusion ==
    [][/\ (last'.kind = "convert" /\ last'.rid = nreq + 1 /\ last'.branch = "miss") =>
              \E p \in procs' \ procs : p.rid = last'.rid /\ p.dir = last'.fh
       /\ \A p \in procs :
              (p.kind = "convert" /\ ~p.wrote /\ [p EXCEPT !.wrote = TRUE] \in procs') =>
                  bin'[p.dir].content.by = p.rid]_vars

C15_Witness ==
    \E p, q \in procs :
        /\ p.kind = "convert" /\ q.kind = "convert"
        /\ p.rid < q.rid /\ p.dir = q.dir
        /\ p.wrote /\ q.wrote
        /\ bin[p.dir].content.by = p.rid

Fingerprints == {generateFileHash(p) : p \in FilePaths}

\* C16: a handler run on behalf of fingerprint F changes no Editor.bin, media
\* file, temp file or descriptor in the working directory of another
\* fingerprint.
C16_WorkingDirectoriesIsolated ==
    [][(last'.kind \in {"convert", "save", "media"} /\ last'.rid > 0
            /\ last'.fh \in Fingerprints) =>
          \A d \in Fingerprints \ {last'.fh} :
              /\ bin'[d] = bin[d] /\ media'[d] = media[d]
              /\ tbin'[d] = tbin[d] /\ ptemp'[d] = ptemp[d] /\ psave'[d] = psave[d]]_vars

\* the characters of a digest string
Chars(h) ==
    CASE h = "74d6059c663073424335141d4fd39f1a" ->
            <<"7", "4", "d", "6", "0", "5", "9", "c", "6", "6", "3", "0", "7", "3", "4", "2",
             "4", "3", "3", "5", "1", "4", "1", "d", "4", "f", "d", "3", "9", "f", "1", "a">>
      [] h = "d8ef9aa9618aa40b7ab5706e1b006ef5" ->
            <<"d", "8", "e", "f", "9", "a", "a", "9", "6", "1", "8", "a", "a", "4", "0", "b",
             "7", "a", "b", "5", "7", "0", "6", "e", "1", "b", "0", "0", "6", "e", "f", "5">>
      [] h = "37193ced4c606ded83d9c78a05bb340a" ->
            <<"3", "7", "1", "9", "3", "c", "e", "d", "4", "c", "6", "0", "6", "d", "e", "d",
             "8", "3", "d", "9", "c", "7", "8", "a", "0", "5", "b", "b", "3", "4", "0", "a">>
      [] h = "c7115f8b2e47880d48f47c29c1f0ca3b" ->
            <<"c", "7", "1", "1", "5", "f", "8", "b", "2", "e", "4", "7", "8", "8", "0", "d",
             "4", "8", "f", "4", "7", "c", "2", "9", "c", "1", "f", "0", "c", "a", "3", "b">>

HexChars == {"0", "1", "2", "3", "4", "5", "6", "7", "8", "9", "a", "b", "c", "d", "e", "f"}

\* C17: generateFileHash gives distinct paths distinct fingerprints of
\* exactly 32 lowercase hexadecimal characters, and the working directory of
\* every convert call is the fingerprint of its path, the same on every call.
C17_FingerprintOfPath ==
    /\ \A p, q \in FilePaths : (generateFileHash(p) = generateFileHash(q)) <=> (p = q)
    /\ \A p \in FilePaths :
           /\ Len(generateFileHash(p)) = 32
           /\ Len(Chars(generateFileHash(p))) = 32
           /\ \A i \in 1..32 : Chars(generateFileHash(p))[i] \in HexChars
    /\ \A j \in procs : j.kind = "convert" => j.dir = generateFileHash(j.fp)
    /\ (last.kind = "convert" /\ last.branch \notin {"none", "invalid"}) =>
           last.fh = generateFileHash(last.fp)

C17_Witness ==
    \E p, q \in procs :
        /\ p.rid # q.rid /\ p.fp = q.fp
        /\ p.dir = q.dir /\ p.dir = generateFileHash(PA)
        /\ ~p.wrote /\ ~q.wrote

\* C18: a successful convert response carries the fingerprint of the
\* requested path in X-File-Hash, and X-Cache is HIT exactly when the request
\* spawned no converter, MISS exactly when it spawned one that exited zero.
C18_SuccessHeaders ==
    (last.kind = "convert" /\ last.status = 200) =>
        /\ last.xhash = generateFileHash(last.fp)
        /\ last.xcache \in {"HIT", "MISS"}
        /\ (last.xcache = "HIT") <=> ~last.spawned
        /\ (last.xcache = "MISS") <=> (last.spawned /\ last.code = 0)

C18_Witness ==
    /\ last.kind = "convert" /\ last.status = 200
    /\ last.xcache = "MISS" /\ last.wrote

\* C19: in the save round trip (the bytes and the fingerprint of a
\* successful convert of a .csv file posted to save with a .csv target), the
\* response is 200 with success:true and a positive size whenever the
\* converter of the save exits zero and has written the destination.
C19_CsvRoundTripSucceeds ==
    (script = 16 /\ rt.saveSpawned /\ rt.saveCode = 0 /\ rt.saveWrote) =>
        /\ rt.saveStatus = 200 /\ rt.saveSuccess
        /\ rt.saveSize > 0

C19_Witness ==
    /\ script = 16 /\ rt.saveSpawned /\ rt.saveCode = 0 /\ rt.saveWrote
    /\ rt.saveStatus = 200 /\ rt.b1 = "miss"

\* C20: a descriptor written by convert, save or /converter contains
\* m_nCsvTxtEncoding 46 and m_nCsvDelimiter 4 if and only if the source
\* extension (convert) or the target extension or format (save, /converter)
\* is csv.
C20_CsvFieldsIffCsv ==
    last.xml # NoXml =>
        ((last.xml.csvTxtEncoding = 46 /\ last.xml.csvDelimiter = 4) <=>
            IF last.kind = "converter"
            THEN ToLowerCase(last.target) = CSV
            ELSE ToLowerCase(Extname(last.fp)) = CSV_EXT)

----------------------------------------------------------------------------
(* Properties of the descriptors *)

DescriptorWritten == last.xml # NoXml

\* C21: every descriptor written by convert, save or /converter sets
\* allowNetworkRequest to false and allowPrivateIP to true, whatever the
\* parameters of the request are.
C21_NetworkPolicyFixed ==
    DescriptorWritten =>
        /\ ElementValues(last.xml.text, "allowNetworkRequest") = <<"false">>
        /\ ElementValues(last.xml.text, "allowPrivateIP") = <<"true">>

\* C22: a convert descriptor has target format 8192 and no m_nFormatFrom; a
\* save descriptor has m_nFormatFrom 8192, the registry code of filepath's
\* extension as target format, the temp binary as source and filepath as
\* destination; m_nFormatFrom is in the text exactly when the handler
\* supplies a source format.
C22_DescriptorFormats ==
    DescriptorWritten =>
        /\ last.kind = "convert" =>
               /\ last.xml.formatTo = 8192 /\ last.xml.formatFrom = 0
               /\ ElementValues(last.xml.text, "m_nFormatTo") = <<"8192">>
               /\ ElementValues(last.xml.text, "m_nFormatFrom") = << >>
        /\ last.kind = "save" =>
               /\ last.xml.formatFrom = 8192
               /\ ElementValues(last.xml.text, "m_nFormatFrom") = <<"8192">>
               /\ last.xml.formatTo = getOutputFormatInfo(ToLowerCase(Extname(last.fp))).code
               /\ last.xml.formatTo # NoFormat.code
               /\ ElementValues(last.xml.text, "m_nFormatTo") = <<ToString(last.xml.formatTo)>>
               /\ last.xml.fileFrom = <<last.fh, TEMP_CHANGES_BIN>>
               /\ tbin[last.fh].exists
               /\ last.xml.fileTo = last.fp
        /\ (last.xml.formatFrom # 0) <=> (ElementValues(last.xml.text, "m_nFormatFrom") # << >>)

C22_Witness ==
    /\ last.kind = "save" /\ DescriptorWritten
    /\ last.xml.formatTo = 260 /\ last.xml.fileTo = PA

----------------------------------------------------------------------------
(* Properties of the format registry *)

Supported == SPREADSHEET \cup WORD \cup PRESENTATION \cup {<<"c", "s", "v">>, <<"p", "d", "f">>}

\* the code and the name of the canonical family of a supported extension
FamilyCode(e) ==
    CASE e \in WORD -> 65
      [] e \in PRESENTATION -> 129
      [] e \in SPREADSHEET -> 257
      [] e = <<"c", "s", "v">> -> 260
      [] e = <<"p", "d", "f">> -> 513

FamilyName(e) ==
    CASE e \in WORD -> "DOCX"
      [] e \in PRESENTATION -> "PPTX"
      [] e \in SPREADSHEET -> "XLSX"
      [] e = <<"c", "s", "v">> -> "CSV"
      [] e = <<"p", "d", "f">> -> "PDF"

\* C23 as stated: for every supported extension, in any letter case and with
\* or without a leading dot, the registry returns the code of its canonical
\* family (65, 129, 257, 260, 513 for pdf) and the matching {code, name}
\* output record; every other extension returns null.
C23_RegistryByFamily ==
    /\ call.fn = "getX2TFormatCode" =>
           call.code = IF call.ext \in Supported THEN FamilyCode(call.ext) ELSE 0
    /\ call.fn = "getOutputFormatInfo" =>
           call.info = IF call.ext \in Supported
                       THEN [code |-> FamilyCode(call.ext), name |-> FamilyName(call.ext)]
                       ELSE NoFormat

\* C23, amended: the code lookup returns the family code of every supported
\* extension, pdf included, in any spelling; the output record is the
\* family's {code, name} for every supported extension but pdf, for which,
\* as for every unsupported extension, it is null.
C23_RegistryByFamilyButPdf ==
    /\ call.fn = "getX2TFormatCode" =>
           call.code = IF call.ext \in Supported THEN FamilyCode(call.ext) ELSE 0
    /\ call.fn = "getOutputFormatInfo" =>
           call.info = IF call.ext \in Supported \ {<<"p", "d", "f">>}
                       THEN [code |-> FamilyCode(call.ext), name |-> FamilyName(call.ext)]
                       ELSE NoFormat

C23_Witness ==
    /\ call.fn = "getOutputFormatInfo"
    /\ call.arg = <<".", "O", "D", "S">>
    /\ call.info = [code |-> 257, name |-> "XLSX"]

\* the category the classification is to give to an extension
Category(e) ==
    CASE e \in SPREADSHEET \cup {<<"c", "s", "v">>} -> "cell"
      [] e \in WORD -> "word"
      [] OTHER -> "slide"

\* C24: the classification is total: spreadsheet extensions give cell,
\* word-processor extensions word, presentation extensions and every
\* unrecognised extension slide; the batch tool's getDocType gives a file the
\* category that the server's getDocTypeFromFilename gives it.
C24_DocTypeTotalAndEqual ==
    /\ call.fn \in {"getDocTypeFromFilename", "buildOfflineLoaderUrl"} =>
           call.doctype = Category(call.ext)
    /\ call.fn = "buildOfflineLoaderUrl" =>
           call.doctype = getDocTypeFromFilename(call.arg)
    /\ call.fn = "getDocTypeFromFilename" =>
           call.doctype = getDocType(ToLowerCase(Slice1(Extname(call.arg))))

C24_Witness ==
    /\ call.fn = "buildOfflineLoaderUrl"
    /\ call.ext = <<"x", "y", "z">>
    /\ call.doctype = "slide"

----------------------------------------------------------------------------
(* Properties of the media endpoints *)

\* C25: a media upload for fingerprint F with file name N writes one file,
\* under F's media directory, and leaves F's Editor.bin as it was; after it
\* GET /api/media/F/N returns the uploaded bytes and GET /api/media-list/F
\* includes N.
C25_UploadStoredUnderMedia ==
    [][\A F \in MediaHashes, N \in MediaNames :
          (/\ last'.kind = "media" /\ last'.status = 200 /\ nreq' = nreq + 1
           /\ last'.fh = F /\ last'.filename = N) =>
              /\ Len(N) = 1
              /\ last'.name = <<F, MEDIA>> \o N
              /\ bin' = bin
              /\ \A d \in WorkDirs \ {F} : media'[d].files = media[d].files
              /\ {f \in media'[F].files : f.name # N[1]}
                     = {f \in media[F].files : f.name # N[1]}
              /\ [name |-> N[1], data |-> last'.payload] \in media'[F].files
              /\ (MediaFile(F, N))' = [exists |-> TRUE, data |-> last'.payload]
              /\ N[1] \in (MediaListing(F))']_vars

----------------------------------------------------------------------------
(* Claims about the desktop stub *)

\* the step is a call of LocalFileSave, by the SDK or through OnSave
LocalFileSaveCalled ==
    ret'.op = "LocalFileSave" \/ (ret'.op = "OnSave" /\ ret'.invoked)

\* the step left the pending exports and the POSTs in flight as they were
NothingScheduled == timers' = timers /\ posts' = posts

FilepathAbsolute ==
    window.ONLYOFFICE_FILEPATH # NoPath /\ Head(window.ONLYOFFICE_FILEPATH) = "/"

ModifiedChangedFalseCalled == ret'.op = "onDocumentModifiedChanged" /\ ~ret'.arg

\* the call comes less than 100 ms after the last call that was let through
ModifiedChangedThrottled ==
    window.lastModifiedChangedTime # 0 /\ clock - window.lastModifiedChangedTime < 100

NeverEdited == ~window.userHasEdited /\ window.documentChanges = 0

\* C27 as stated: onDocumentModifiedChanged(false) clears _documentModified
\* and _hasUnsavedChanges only if the user has never edited and no changes
\* are stored; once LocalFileSaveChanges has stored a non-empty change or
\* onDocumentModifiedChanged(true) has been accepted, every later
\* onDocumentModifiedChanged(false) leaves both flags true.
C27_FalseKeepsFlagsAfterEdit ==
    [][ModifiedChangedFalseCalled =>
        /\ (window.documentModified /\ ~window'.documentModified) => NeverEdited
        /\ (window.hasUnsavedChanges /\ ~window'.hasUnsavedChanges) => NeverEdited
        /\ seen.edited => window'.documentModified /\ window'.hasUnsavedChanges]_vars

\* C27 as the code has it: a call of onDocumentModifiedChanged(false) that
\* comes less than 100 ms after the last call let through changes nothing;
\* any other call clears both flags exactly when the user has never edited
\* and no changes are stored, and sets both flags true otherwise. Once a
\* change has been stored or onDocumentModifiedChanged(true) has been let
\* through, _documentModified is true after every later call, and
\* _hasUnsavedChanges is true after every later call that is let through.
C27_UnthrottledFalseKeepsFlagsAfterEdit ==
    [][ModifiedChangedFalseCalled =>
        /\ ModifiedChangedThrottled => window' = window
        /\ ~ModifiedChangedThrottled /\ NeverEdited =>
             ~window'.documentModified /\ ~window'.hasUnsavedChanges
        /\ ~ModifiedChangedThrottled /\ ~NeverEdited =>
             window'.documentModified /\ window'.hasUnsavedChanges
        /\ seen.edited => ~NeverEdited /\ window'.documentModified]_vars

\* after an edit and a load event that reset _hasUnsavedChanges, a call of
\* onDocumentModifiedChanged(false) was let through and set both flags again
C27_Witness ==
    /\ ret.op = "onDocumentModifiedChanged" /\ ~ret.arg /\ ret.accepted
    /\ seen.edited /\ window.documentLoaded
    /\ window.documentModified /\ window.hasUnsavedChanges

\* at least 2000 ms have passed since every call of OnSave that went on to
\* LocalFileSave
SaveWindowOver == \A i \in DOMAIN seen.started : clock - seen.started[i] >= 2000

\* C28: OnSave invokes LocalFileSave only when _documentModified is true and
\* at least 2000 ms have passed since the last OnSave call that invoked it
\* (and it does invoke it then); every other OnSave call returns false and
\* changes no state, so no two saves are started less than 2000 ms apart.
C28_OnSaveThrottled ==
    /\ [][ret'.op = "OnSave" =>
            /\ ret'.invoked <=> window.documentModified /\ SaveWindowOver
            /\ ret'.invoked => seen'.started = Append(seen.started, clock)
            /\ ~ret'.invoked =>
                 /\ ret'.value = "false"
                 /\ window' = window /\ timers' = timers /\ posts' = posts
                 /\ seen'.started = seen.started]_vars
    /\ [](\A i, j \in DOMAIN seen.started :
             i < j => seen.started[j] - seen.started[i] >= 2000)

\* OnSave has started a second save, 2000 ms or more after the first, and
\* the call has scheduled an export
C28_Witness ==
    /\ ret.op = "OnSave" /\ ret.invoked /\ ret.scheduled
    /\ Len(seen.started) = 2
    /\ window.lastOnSaveTime = seen.started[2]

\* more than 30 calls, the k-th included, came less than a second before
\* the k-th call of LocalFileGetSaved
Burst(calls, k) ==
    Cardinality({j \in 1..k : calls[k] - calls[j] < 1000}) > 30

\* C29: loop detection in LocalFileGetSaved is a latch: once more than 30
\* calls have occurred within one second, that call and every later call
\* return undefined; before that, each call returns the negation of
\* _hasUnsavedChanges.
C29_LoopDetectionLatches ==
    [][ret'.op = "LocalFileGetSaved" =>
        /\ seen'.calls = Append(seen.calls, clock)
        /\ IF \E k \in DOMAIN seen'.calls : Burst(seen'.calls, k)
           THEN ret'.value = "undefined"
           ELSE ret'.value = IF window.hasUnsavedChanges THEN "false" ELSE "true"]_vars

\* the detection has fired, and a call made a second or more after the call
\* before it still returned undefined
C29_Witness ==
    /\ ret.op = "LocalFileGetSaved" /\ ret.value = "undefined"
    /\ window.infiniteLoopGetSavedDetected
    /\ Len(seen.calls) > INFINITE_LOOP_THRESHOLD + 1
    /\ seen.calls[Len(seen.calls)] - seen.calls[Len(seen.calls) - 1] >= 1000

----------------------------------------------------------------------------
(* Claims about responses *)

\* no request has been sent more than one response
AtMostOneResponse == \A r \in Requests : answered[r] <= 1

\* a request was answered while the converter of an earlier one was running
AnsweredMeanwhile ==
    \E p \in procs : last.rid > p.rid /\ last.status # 0 /\ answered[last.rid] = 1

\* C30: every convert and save request receives at most one response and,
\* when each spawned converter eventually exits or fails to start, it
\* eventually has received exactly one.
C30_EveryRequestAnsweredOnce ==
    /\ []AtMostOneResponse
    /\ \A r \in Requests : [](nreq >= r => <>(answered[r] = 1))

----------------------------------------------------------------------------
(* Claims about concurrent requests *)

\* C31: under concurrent convert requests, the descriptor a request wrote
\* (params_temp.xml in the working directory of its path) is on disk, as
\* that request wrote it, for as long as the converter spawned for the
\* request is running: no other request's cleanup has deleted it and no
\* other request has overwritten it.
C31_DescriptorKeptWhileConverterRuns ==
    \A p \in procs : p.kind = "convert" => ptemp[p.dir] = p.rid

\* C32: under concurrent saves through the conversion branch, in the same
\* working directory (same fingerprint, or none), the converter started by a
\* save finds, until it has produced its output, the payload and the
\* descriptor that this save wrote.
C32_ConverterReadsOwnUpload ==
    \A p \in procs :
        p.kind = "save" /\ ~p.wrote =>
            /\ psave[p.dir] = p.rid
            /\ tbin[p.dir].exists /\ tbin[p.dir].content.by = p.rid

\* C33: every cache hit returns an artifact converted from the content the
\* source has at the time of the hit, also when the source was edited while
\* a conversion of it was in flight.
C33_HitServesCurrentContent ==
    (last.kind = "convert" /\ last.branch = "hit") =>
        prov.art[last.fh] = prov.src[last.fp]

----------------------------------------------------------------------------
(* Claims about the directories of a save *)

\* C34: a save that reaches the conversion branch when the working directory
\* of its fingerprint (or the fallback directory) does not exist creates the
\* directory, writes temp_changes.bin into it and goes on to the converter.
C34_SaveCreatesWorkingDirectory ==
    [][(last'.kind = "save" /\ last'.rid = nreq + 1 /\ nreq' = nreq + 1
            /\ last'.branch \in {"enoent", "convert", "descfail"}
            /\ last'.fh \notin dirs) =>
          /\ last'.fh \in dirs'
          /\ tbin'[last'.fh].exists
          /\ last'.branch # "enoent"]_vars

\* C35: a save that is rejected because the extension of the destination is
\* not supported leaves every file and every directory as it was, the parent
\* directory of the destination included.
C35_UnsupportedSaveTouchesNothing ==
    [][(last'.kind = "save" /\ last'.rid = nreq + 1 /\ nreq' = nreq + 1
            /\ last'.branch = "unsupported") =>
          UNCHANGED fsvars]_vars

----------------------------------------------------------------------------
(* Claims about the stub around a save *)

\* C36: after a save has completed successfully and the user has made no
\* further edit, LocalFileGetSaved returns true, whatever
\* onDocumentModifiedChanged(false) notifications came in between.
C36_SavedStaysSaved ==
    [][(ret'.op = "LocalFileGetSaved" /\ watch.saved) => ret'.value = "true"]_vars

\* C37: the stub clears _hasUnsavedChanges (and tells the SDK that the save
\* has ended) only on a response that reports a successful save; a 400 or
\* 500 response leaves _hasUnsavedChanges true.
C37_ClearedOnlyOnSuccess ==
    [][(ret'.op = "fetch" /\ window.hasUnsavedChanges) =>
          /\ ~window'.hasUnsavedChanges => watch'.status = 200
          /\ ret'.value = "saved" => watch'.status = 200
          /\ watch'.status \in {400, 500} => window'.hasUnsavedChanges]_vars

\* C38: whenever the latest onDocumentModifiedChanged notification was true,
\* _documentModified is true (so that LocalFileSave does not return early).
C38_NotifiedTrueMeansModified ==
    watch.notified = "true" => window.documentModified /\ ~SaveSkipped

----------------------------------------------------------------------------
(* Claims about dropped files *)

\* how many of the URLs are URLs of the file
Occurrences(urls, file) == Cardinality({j \in DOMAIN urls : urls[j] = file})

\* C39: every file delivered by a drop event (leaving aside the files whose
\* upload the server refused) is returned as a URL by the next GetDropFiles
\* call exactly once, uploaded or not, also when the drop mixes both kinds;
\* after the call _droppedFiles is empty.
C39_EveryDroppedFileReturnedOnce ==
    [][ret'.op = "GetDropFiles" =>
          /\ \A j \in DOMAIN seen.dropped :
                seen.dropped[j] \notin seen.refused =>
                    Occurrences(ret'.urls, seen.dropped[j]) = 1
          /\ window'.droppedFiles = << >>]_vars
====
